---- MODULE Spec2Model ----
(***************************************************************************)
(* A model of the ECDSA analysis utilities of ecdsapivot:                  *)
(*   src/src/utils/bitcoinAnalysis.ts  (duplicate nonces, key recovery)    *)
(*   src/src/utils/attackaio.ts        (curve arithmetic, search jobs)     *)
(*   src/src/utils/blockAnalysis.ts    (transaction codec)                 *)
(*                                                                         *)
(* Numbers.  The source computes over secp256k1 with 256-bit BigInts.      *)
(* The model keeps the code of every operation and replaces the curve      *)
(* parameters by a curve of the same shape that fits the checker's         *)
(* integers: y^2 = x^3 + 7 over F_43, of prime group order 31 < 43, with   *)
(* 43 = 3 (mod 4) as for secp256k1.                                        *)
(*                                                                         *)
(* Strings.  A hex string is a sequence of digits 0..15.  A text string    *)
(* (a word of a wordlist) is a natural number naming it.                   *)
(***************************************************************************)
EXTENDS Integers, Sequences, FiniteSets

VARIABLES
    rec,    \* one call of recoverPrivateKey: its arguments and its outcome
    dup,    \* one call of findDuplicateNonces: its argument and its outcome
    eng,    \* the fields of one AttackAIO object
    job,    \* the search call in flight on eng: its locals and its outcome
    tx,     \* one construction of a BitcoinTransaction
    call    \* one call of a function of the codecs, of the curve arithmetic
            \* or of analyzeBlock: its arguments, its locals and its outcome

vars == <<rec, dup, eng, job, tx, call>>

(***************************************************************************)
(* JavaScript arithmetic and strings                                       *)
(***************************************************************************)

\* BigInt  a % m : the remainder takes the sign of the dividend.
JsRem(a, m) == IF a >= 0 THEN a % m ELSE 0 - ((0 - a) % m)

\* BigInt  a / b : the quotient is truncated toward zero.
JsDiv(a, b) ==
    IF (a >= 0) = (b > 0)
    THEN (IF a >= 0 THEN a ELSE 0 - a) \div (IF b > 0 THEN b ELSE 0 - b)
    ELSE 0 - ((IF a >= 0 THEN a ELSE 0 - a) \div (IF b > 0 THEN b ELSE 0 - b))

Min(a, b) == IF a <= b THEN a ELSE b

\* the width every scalar is padded to on output: padStart(64, '0')
HexWidth == 64

\* v.toString(16) for v >= 0
RECURSIVE ToString16(_)
ToString16(v) == IF v < 16 THEN <<v>> ELSE Append(ToString16(v \div 16), v % 16)

\* s.padStart(w, '0')
PadStart(s, w) ==
    IF Len(s) >= w THEN s
    ELSE [i \in 1..w |-> IF i <= w - Len(s) THEN 0 ELSE s[i - (w - Len(s))]]

\* the number the first i digits of a string of hex digits denote
RECURSIVE HexValueUpTo(_, _)
HexValueUpTo(s, i) ==
    IF i = 0 THEN 0 ELSE 16 * HexValueUpTo(s, i - 1) + s[i]

\* a string of hex digits without its leading zeros
Significant(s) ==
    IF \A i \in 1..Len(s) : s[i] = 0 THEN <<>>
    ELSE SubSeq(s, CHOOSE i \in 1..Len(s) :
                       s[i] # 0 /\ \A j \in 1..(i - 1) : s[j] = 0,
                Len(s))

\* BigInt('0x' + s) for a non-empty string of hex digits
HexValue(s) ==
    CHOOSE v \in {HexValueUpTo(t, Len(t)) : t \in {Significant(s)}} : TRUE

\* s.substring(a, b), 0 <= a <= b
Substring(s, a, b) == SubSeq(s, a + 1, Min(b, Len(s)))

(***************************************************************************)
(* Curve parameters (scaled, see the head of the module)                   *)
(***************************************************************************)
N == 31
P == 43
G == [x |-> 2, y |-> 12]

\* the value the code uses for the point at infinity: { x: 0n, y: 0n }
Infinity == [x |-> 0, y |-> 0]

\* what a thrown error is written as where a number or a point is expected
Thrown == [x |-> -1, y |-> -1]
NoInverse == -1

(***************************************************************************)
(* modInverse: the extended Euclidean algorithm, the same text in          *)
(* bitcoinAnalysis.ts and in AttackAIO                                     *)
(*                                                                         *)
(* Writing.  A loop is a recursive operator over the loop's variables.     *)
(* Its arguments are named with a 0 and bound to the variables' names by   *)
(* CHOOSE out \in {body : v \in {v0}} : TRUE, which is body with v = v0    *)
(* and has each argument computed once.                                    *)
(***************************************************************************)
\* a plausible slip: a negative coefficient is returned as it is
RECURSIVE ModInverseLoopNoAdjust(_, _, _, _, _)
ModInverseLoopNoAdjust(oldR0, r0, oldS0, s0, m) ==
    CHOOSE out \in {
        IF r # 0
        THEN ModInverseLoopNoAdjust(r, oldR - JsDiv(oldR, r) * r,
                                    s, oldS - JsDiv(oldR, r) * s, m)
        ELSE IF oldR > 1 THEN NoInverse ELSE oldS
        : oldR \in {oldR0}, r \in {r0}, oldS \in {oldS0}, s \in {s0}} : TRUE

\* a plausible slip: the gcd test is left out and the coefficient returned
RECURSIVE ModInverseLoopNoThrow(_, _, _, _, _)
ModInverseLoopNoThrow(oldR0, r0, oldS0, s0, m) ==
    CHOOSE out \in {
        IF r # 0
        THEN ModInverseLoopNoThrow(r, oldR - JsDiv(oldR, r) * r,
                                   s, oldS - JsDiv(oldR, r) * s, m)
        ELSE IF oldS < 0 THEN oldS + m ELSE oldS
        : oldR \in {oldR0}, r \in {r0}, oldS \in {oldS0}, s \in {s0}} : TRUE

RECURSIVE ModInverseLoop(_, _, _, _, _)
ModInverseLoop(oldR0, r0, oldS0, s0, m) ==
    CHOOSE out \in {
        IF r # 0
        THEN ModInverseLoop(r, oldR - JsDiv(oldR, r) * r,
                            s, oldS - JsDiv(oldR, r) * s, m)
        ELSE IF oldR > 1 THEN NoInverse
             ELSE IF oldS < 0 THEN oldS + m ELSE oldS
        : oldR \in {oldR0}, r \in {r0}, oldS \in {oldS0}, s \in {s0}} : TRUE

ModInverseNoThrow(a, m) ==
    ModInverseLoopNoThrow(IF a < 0 THEN JsRem(JsRem(a, m) + m, m) ELSE a, m, 1, 0, m)

ModInverse(a, m) ==
    ModInverseLoop(IF a < 0 THEN JsRem(JsRem(a, m) + m, m) ELSE a, m, 1, 0, m)

(***************************************************************************)
(* AttackAIO point arithmetic                                              *)
(***************************************************************************)
NormP(v) == IF v < 0 THEN v + P ELSE v

\* the point of slope `slope` through p1 and p2, or Thrown when the
\* inverse the slope is made from does not exist
Chord(p1, p2, inverse0, numerator) ==
    CHOOSE out \in {
        IF inverse = NoInverse THEN Thrown
        ELSE CHOOSE q \in {
                 [x |-> NormP(x3),
                  y |-> NormP(JsRem(slope * (p1.x - x3) - p1.y, P))]
                 : slope \in {JsRem(numerator * inverse, P)},
                   x3 \in {JsRem(JsRem(numerator * inverse, P)
                                   * JsRem(numerator * inverse, P) - p1.x - p2.x, P)}}
                 : TRUE
        : inverse \in {inverse0}} : TRUE

PointDouble(point0) ==
    CHOOSE out \in {
        IF point.y = 0 THEN Infinity
        ELSE Chord(point, point, ModInverse(2 * point.y, P), 3 * point.x * point.x)
        : point \in {point0}} : TRUE

\* the pointAdd of the second copy of the utility functions, which the file
\* holds after the end of the class: it has no branch for equal x
PointAddSecondCopy(p10, p20) ==
    CHOOSE out \in {
        IF p1.x = 0 /\ p1.y = 0 THEN p2
        ELSE IF p2.x = 0 /\ p2.y = 0 THEN p1
        ELSE Chord(p1, p2, ModInverse(p2.x - p1.x, P), p2.y - p1.y)
        : p1 \in {p10}, p2 \in {p20}} : TRUE

\* pointAdd without the doubling of equal operands
PointAddNeverDoubles(p10, p20) ==
    CHOOSE out \in {
        IF p1.x = 0 /\ p1.y = 0 THEN p2
        ELSE IF p2.x = 0 /\ p2.y = 0 THEN p1
        ELSE IF p1.x = p2.x THEN Infinity
        ELSE Chord(p1, p2, ModInverse(p2.x - p1.x, P), p2.y - p1.y)
        : p1 \in {p10}, p2 \in {p20}} : TRUE

PointAdd(p10, p20) ==
    CHOOSE out \in {
        IF p1.x = 0 /\ p1.y = 0 THEN p2
        ELSE IF p2.x = 0 /\ p2.y = 0 THEN p1
        ELSE IF p1.x = p2.x
             THEN (IF p1.y = p2.y THEN PointDouble(p1) ELSE Infinity)
        ELSE Chord(p1, p2, ModInverse(p2.x - p1.x, P), p2.y - p1.y)
        : p1 \in {p10}, p2 \in {p20}} : TRUE

\* the loop of scalarMultiply: result, addend, scalar
RECURSIVE ScalarMultiplyLoop(_, _, _)
ScalarMultiplyLoop(result0, addend0, scalar0) ==
    CHOOSE out \in {
        IF scalar > 0
        THEN CHOOSE next \in {
                 IF r2 = Thrown \/ a2 = Thrown THEN Thrown
                 ELSE ScalarMultiplyLoop(r2, a2, scalar \div 2)
                 : r2 \in {IF scalar % 2 = 1 THEN PointAdd(result, addend) ELSE result},
                   a2 \in {PointDouble(addend)}} : TRUE
        ELSE result
        : result \in {result0}, addend \in {addend0}, scalar \in {scalar0}} : TRUE

ScalarMultiply(point, scalar) ==
    IF scalar = 0 THEN Infinity
    ELSE IF scalar = 1 THEN point
    ELSE ScalarMultiplyLoop(Infinity, point, scalar)

PointsEqual(p1, p2) == p1.x = p2.x /\ p1.y = p2.y

\* privateKeyToPublicKey: '04' + x + y, or '02'/'03' + x
PrivateKeyToPublicKey(privateKeyHex, compressed) ==
    LET point == ScalarMultiply(G, HexValue(privateKeyHex))
    IN  IF compressed
        THEN (IF point.y % 2 = 0 THEN <<0, 2>> ELSE <<0, 3>>)
             \o PadStart(ToString16(point.x), HexWidth)
        ELSE <<0, 4>> \o PadStart(ToString16(point.x), HexWidth)
                      \o PadStart(ToString16(point.y), HexWidth)

\* parsePublicKey for the uncompressed form
ParseUncompressed(publicKeyHex) ==
    [x |-> HexValue(Substring(publicKeyHex, 2, 2 + HexWidth)),
     y |-> HexValue(Substring(publicKeyHex, 2 + HexWidth, 2 + 2 * HexWidth))]

(***************************************************************************)
(* bitcoinAnalysis.ts: recoverPrivateKey                                   *)
(***************************************************************************)
Null == [kind |-> "null"]

KeyResult(privateKey, publicKey) ==
    [kind |-> "key",
     privateKey |-> PadStart(ToString16(privateKey), HexWidth),
     publicKey |-> publicKey]

\* a plausible slip: the differences are reduced without adding N first
RecoverPrivateKeyNoAddN(r, s1, s2, z1, z2, publicKey) ==
    IF \E h \in {r, s1, s2, z1, z2} : Len(h) = 0 THEN Null
    ELSE LET rBig == HexValue(r)
             s1Big == HexValue(s1)
             s2Big == HexValue(s2)
             z1Big == HexValue(z1)
             z2Big == HexValue(z2)
             numerator == JsRem(z1Big - z2Big, N)
             denominator == JsRem(s1Big - s2Big, N)
             denominatorInv == ModInverse(denominator, N)
             k == JsRem(numerator * denominatorInv, N)
             numerator2 == JsRem(s1Big * k - z1Big, N)
             rInv == ModInverse(rBig, N)
             privateKey == JsRem(numerator2 * rInv, N)
         IN  IF denominatorInv = NoInverse \/ rInv = NoInverse THEN Null
             ELSE IF privateKey > 0 /\ privateKey < N
                  THEN KeyResult(privateKey, publicKey)
                  ELSE Null

\* BigInt('0x') of an empty string throws; every throw is caught and gives null
RecoverPrivateKey(r, s1, s2, z1, z2, publicKey) ==
    IF \E h \in {r, s1, s2, z1, z2} : Len(h) = 0 THEN Null
    ELSE LET rBig == HexValue(r)
             s1Big == HexValue(s1)
             s2Big == HexValue(s2)
             z1Big == HexValue(z1)
             z2Big == HexValue(z2)
             numerator == JsRem(z1Big - z2Big + N, N)
             denominator == JsRem(s1Big - s2Big + N, N)
             denominatorInv == ModInverse(denominator, N)
             k == JsRem(numerator * denominatorInv, N)
             numerator2 == JsRem(s1Big * k - z1Big + N, N)
             rInv == ModInverse(rBig, N)
             privateKey == JsRem(numerator2 * rInv, N)
         IN  IF denominatorInv = NoInverse \/ rInv = NoInverse THEN Null
             ELSE IF privateKey > 0 /\ privateKey < N
                  THEN KeyResult(privateKey, publicKey)
                  ELSE Null

(***************************************************************************)
(* The calls of recoverPrivateKey that are checked                         *)
(***************************************************************************)
\* digests of the signed calls are drawn from 0..MaxDigest
MaxDigest == 2
\* the raw calls draw their scalars from 0..MaxRaw and N..N+MaxRaw
MaxRaw == 1

Hex64(v) == PadStart(ToString16(v), HexWidth)

\* two signatures of one key d made with one nonce k, as ECDSA makes them
SignedCall(d, k, z1, z2) ==
    LET r    == ScalarMultiply(G, k).x % N
        kInv == ModInverse(k, N)
    IN  [pc |-> "call", signed |-> TRUE, d |-> d, k |-> k,
         r |-> Hex64(r),
         s1 |-> Hex64((kInv * (z1 + r * d)) % N),
         s2 |-> Hex64((kInv * (z2 + r * d)) % N),
         z1 |-> Hex64(z1), z2 |-> Hex64(z2),
         publicKey |-> PrivateKeyToPublicKey(Hex64(d), FALSE),
         result |-> Null]

RawHex == {Hex64(v) : v \in (0..MaxRaw) \cup (N..(N + MaxRaw))} \cup {<<>>}

RawCall(r, s1, s2, z1, z2, publicKey) ==
    [pc |-> "call", signed |-> FALSE, d |-> 0, k |-> 0,
     r |-> r, s1 |-> s1, s2 |-> s2, z1 |-> z1, z2 |-> z2,
     publicKey |-> publicKey, result |-> Null]

IdleRec == [pc |-> "idle"]
IdleDup == [pc |-> "idle"]
IdleEng == [pc |-> "idle"]
IdleJob == [pc |-> "idle"]
IdleTx == [pc |-> "idle"]
IdleCall == [pc |-> "idle"]

InitRecover ==
    /\ \/ \E d \in 1..(N - 1), k \in 1..(N - 1), z1 \in 0..MaxDigest, z2 \in 0..MaxDigest :
            /\ z1 # z2
            /\ ScalarMultiply(G, k).x % N # 0
            /\ rec = SignedCall(d, k, z1, z2)
       \/ \E r \in RawHex, s1 \in RawHex, s2 \in RawHex, z1 \in RawHex, z2 \in RawHex,
              key \in 1..2 :
            rec = RawCall(r, s1, s2, z1, z2, PrivateKeyToPublicKey(Hex64(key), FALSE))
    /\ dup = IdleDup
    /\ eng = IdleEng
    /\ job = IdleJob
    /\ tx = IdleTx
    /\ call = IdleCall

Recover ==
    /\ rec.pc = "call"
    /\ rec' = [rec EXCEPT !.pc = "done",
                          !.result = RecoverPrivateKey(rec.r, rec.s1, rec.s2,
                                                       rec.z1, rec.z2, rec.publicKey)]
    /\ UNCHANGED <<dup, eng, job, tx, call>>

NextRecover == Recover

SpecRecover == InitRecover /\ [][NextRecover]_vars

\* C1: for every private key d and nonce k in [1, N) and digests z1 # z2 in
\* [0, N), with r = (k*G).x mod N # 0 and s1, s2 the two ECDSA signatures,
\* recoverPrivateKey(r, s1, s2, z1, z2) returns exactly d.
C1_RecoversD ==
    (rec.pc = "done" /\ rec.signed) =>
        /\ rec.result.kind = "key"
        /\ rec.result.privateKey = Hex64(rec.d)

C1_Witness ==
    /\ rec.pc = "done" /\ rec.signed
    /\ rec.d = 17 /\ rec.k = 5
    /\ HexValue(rec.z1) < HexValue(rec.z2)
    /\ rec.result.kind = "key"
    /\ HexValue(rec.result.privateKey) = 17

\* C2: a key is returned as a successful result only if d*G equals the
\* supplied public key.
C2_ReturnedKeyMatchesPublicKey ==
    (rec.pc = "done" /\ rec.result.kind = "key") =>
        PointsEqual(ScalarMultiply(G, HexValue(rec.result.privateKey)),
                    ParseUncompressed(rec.result.publicKey))

\* C3: recoverPrivateKey returns null, and no key, whenever s1 is congruent
\* to s2 modulo N and whenever r is congruent to 0 modulo N.
C3_DegenerateGivesNull ==
    (/\ rec.pc = "done"
     /\ \A h \in {rec.r, rec.s1, rec.s2, rec.z1, rec.z2} : Len(h) > 0
     /\ \/ HexValue(rec.s1) % N = HexValue(rec.s2) % N
        \/ HexValue(rec.r) % N = 0)
        => rec.result = Null

C3_Witness ==
    /\ rec.pc = "done"
    /\ \A h \in {rec.r, rec.s1, rec.s2, rec.z1, rec.z2} : Len(h) > 0
    /\ HexValue(rec.s1) = HexValue(rec.s2) + N
    /\ HexValue(rec.r) = 1
    /\ HexValue(rec.z1) # HexValue(rec.z2)
    /\ rec.result = Null

(***************************************************************************)
(* bitcoinAnalysis.ts: findDuplicateNonces                                 *)
(*                                                                         *)
(* rGroups is a plain object keyed by the string sig.r.  Object.entries    *)
(* lists the own keys of an object with the keys that are array indices    *)
(* first, in ascending numeric order, and the other keys after them in     *)
(* the order of their creation.                                            *)
(***************************************************************************)
\* a canonical array index: decimal digits only, no leading zero.  (Strings
\* of ten digits and more are out of the model's reach and taken as names.)
IsArrayIndex(s) ==
    /\ Len(s) >= 1 /\ Len(s) <= 9
    /\ \A i \in 1..Len(s) : s[i] <= 9
    /\ (Len(s) > 1 => s[1] # 0)

RECURSIVE DecimalValueUpTo(_, _)
DecimalValueUpTo(s, i) ==
    IF i = 0 THEN 0 ELSE 10 * DecimalValueUpTo(s, i - 1) + s[i]

DecimalValue(s) == DecimalValueUpTo(s, Len(s))

\* the forEach loop over the first i signatures: the keys of rGroups in the
\* order of their creation, and the array each key holds
RECURSIVE RGroups(_, _)
RGroups(signatures, i) ==
    IF i = 0 THEN [keys |-> <<>>, at |-> <<>>]
    ELSE LET g   == RGroups(signatures, i - 1)
             sig == signatures[i]
             known == {j \in 1..Len(g.keys) : g.keys[j] = sig.r}
         IN  IF known = {}
             THEN [keys |-> Append(g.keys, sig.r), at |-> Append(g.at, <<sig>>)]
             ELSE [keys |-> g.keys,
                   at |-> [j \in 1..Len(g.at) |->
                             IF j \in known THEN Append(g.at[j], sig) ELSE g.at[j]]]

\* the positions of the keys in the order Object.entries lists them
RECURSIVE AscendingIndexKeys(_, _)
AscendingIndexKeys(keys, left) ==
    IF left = {} THEN <<>>
    ELSE LET j == CHOOSE a \in left :
                     \A b \in left : DecimalValue(keys[a]) <= DecimalValue(keys[b])
         IN  <<j>> \o AscendingIndexKeys(keys, left \ {j})

EntriesOrder(keys) ==
    AscendingIndexKeys(keys, {j \in 1..Len(keys) : IsArrayIndex(keys[j])})
    \o SelectSeq([j \in 1..Len(keys) |-> j], LAMBDA j : ~IsArrayIndex(keys[j]))

\* a plausible slip: the size test lets single signatures through
FindDuplicateNoncesAnySize(signatures) ==
    LET g     == RGroups(signatures, Len(signatures))
        order == EntriesOrder(g.keys)
        entries == [n \in 1..Len(order) |->
                      [r |-> g.keys[order[n]], signatures |-> g.at[order[n]]]]
    IN  SelectSeq(entries, LAMBDA e : Len(e.signatures) >= 1)

FindDuplicateNonces(signatures) ==
    LET g     == RGroups(signatures, Len(signatures))
        order == EntriesOrder(g.keys)
        entries == [n \in 1..Len(order) |->
                      [r |-> g.keys[order[n]], signatures |-> g.at[order[n]]]]
    IN  SelectSeq(entries, LAMBDA e : Len(e.signatures) > 1)

\* denovoAnalysis.ts: findDuplicateNonces keeps the groups in a Map, which
\* lists its keys in the order of their creation, and returns the signatures
\* of the groups of two and more in one list
RECURSIVE Flatten(_, _)
Flatten(groups, n) ==
    IF n = 0 THEN <<>>
    ELSE Flatten(groups, n - 1)
         \o (IF Len(groups[n]) > 1 THEN groups[n] ELSE <<>>)

FindDuplicateNoncesDenovo(signatures) ==
    LET g == RGroups(signatures, Len(signatures))
    IN  Flatten(g.at, Len(g.at))

(***************************************************************************)
(* The calls of findDuplicateNonces that are checked                       *)
(***************************************************************************)
\* at most MaxSigs signatures in a call
MaxSigs == 4

\* the r strings of the calls: "1", "2", "a", "01"
RValues == {<<1>>, <<2>>, <<10>>, <<0, 1>>}

InitDup ==
    /\ \E n \in 0..MaxSigs : \E rs \in [1..n -> RValues] :
          dup = [pc |-> "call",
                 signatures |-> [i \in 1..n |-> [inputIndex |-> i, r |-> rs[i]]],
                 result |-> <<>>, flat |-> <<>>]
    /\ rec = IdleRec
    /\ eng = IdleEng
    /\ job = IdleJob
    /\ tx = IdleTx
    /\ call = IdleCall

FindDuplicates ==
    /\ dup.pc = "call"
    /\ dup' = [dup EXCEPT !.pc = "done",
                          !.result = FindDuplicateNonces(dup.signatures),
                          !.flat = FindDuplicateNoncesDenovo(dup.signatures)]
    /\ UNCHANGED <<rec, eng, job, tx, call>>

NextDup == FindDuplicates

SpecDup == InitDup /\ [][NextDup]_vars

\* the signatures of a call that carry r, in input order
Carrying(signatures, r) == SelectSeq(signatures, LAMBDA sig : sig.r = r)

\* the position at which r first occurs in the input
FirstOccurrence(signatures, r) ==
    CHOOSE i \in 1..Len(signatures) :
        /\ signatures[i].r = r
        /\ \A j \in 1..(i - 1) : signatures[j].r # r

\* C4: the groups hold the signatures of exactly equal r in input order, and
\* the groups are returned in the order in which their r first occurs in
\* the input.
C4_GroupsInFirstSeenOrder ==
    dup.pc = "done" =>
        /\ \A n \in 1..Len(dup.result) :
              dup.result[n].signatures = Carrying(dup.signatures, dup.result[n].r)
        /\ \A n \in 1..Len(dup.result) : \A m \in (n + 1)..Len(dup.result) :
              FirstOccurrence(dup.signatures, dup.result[n].r)
                  < FirstOccurrence(dup.signatures, dup.result[m].r)

\* C5: exactly one group is returned for each r that occurs at least twice,
\* it holds exactly the signatures carrying that r, and no group is
\* returned for an r that occurs once.  (The list the denovoAnalysis.ts
\* variant returns holds each signature of a repeated r once, and no other.)
C5_OneGroupPerRepeatedR ==
    dup.pc = "done" =>
        /\ \A r \in RValues :
              Cardinality({n \in 1..Len(dup.result) : dup.result[n].r = r})
                  = IF Len(Carrying(dup.signatures, r)) >= 2 THEN 1 ELSE 0
        /\ \A n \in 1..Len(dup.result) :
              /\ dup.result[n].r \in RValues
              /\ dup.result[n].signatures = Carrying(dup.signatures, dup.result[n].r)
        /\ \A i \in 1..Len(dup.signatures) :
              Cardinality({n \in 1..Len(dup.flat) : dup.flat[n] = dup.signatures[i]})
                  = IF Len(Carrying(dup.signatures, dup.signatures[i].r)) >= 2
                    THEN 1 ELSE 0

C5_Witness ==
    /\ dup.pc = "done"
    /\ Len(dup.signatures) >= 3
    /\ Cardinality({r \in RValues : Len(Carrying(dup.signatures, r)) = 2}) = 1
    /\ \A r \in RValues : Len(Carrying(dup.signatures, r)) <= 2
    /\ Len(dup.result) = 1
    /\ Len(dup.result[1].signatures) = 2

(***************************************************************************)
(* attackaio.ts: the AttackAIO object and its search calls                 *)
(*                                                                         *)
(* A search call is an async function: it runs without interruption from   *)
(* the call, or from the end of an await, to the next await, return or     *)
(* throw.  Each such run is one action.  stop() and the abort of a signal  *)
(* are the other callers' steps and happen between the runs.               *)
(*                                                                         *)
(* Time (Date.now) is left out, and with it the rate and eta of a          *)
(* progress snapshot and timeElapsed of a result.                          *)
(***************************************************************************)
JobIds == {1, 2}

\* the largest batch of bruteForcePuzzle, and the divisor of the range
BatchCap == 10000
BatchDivisor == 100
\* bruteForcePuzzle reports progress every 1000 attempts
ProgressEvery == 1000

\* SHA-256 then RIPEMD-160 then Base58Check of the bytes of the public key:
\* the digests are taken to be collision-free, an address names its key
PublicKeyToAddress(publicKeyHex) == [hash160 |-> publicKeyHex]

\* the address no key of the model derives
NoAddress == [hash160 |-> <<>>]

NewEngine ==
    [isRunning |-> FALSE, shouldStop |-> FALSE,
     currentProgress |-> [current |-> <<>>, attempts |-> 0, percentage |-> 0]]

NoResult == [found |-> FALSE, attempts |-> 0, method |-> "none"]

NotFound(attempts, method) ==
    [found |-> FALSE, attempts |-> attempts, method |-> method]

Found(privateKeyHex, publicKey, address, attempts, method) ==
    [found |-> TRUE, privateKey |-> privateKeyHex, publicKey |-> publicKey,
     address |-> address, attempts |-> attempts, method |-> method]

\* a call that has not been made yet: its arguments, and the locals at 0
NewJob(method, config, signal) ==
    [pc |-> "idle", method |-> method, config |-> config, signal |-> signal,
     attempts |-> 0, current |-> 0, result |-> NoResult, error |-> "none",
     signalled |-> FALSE, snap |-> [set |-> FALSE, attempts |-> 0, current |-> 0]]

UnusedJob == [pc |-> "unused", method |-> "none", signal |-> "none", signalled |-> FALSE]

Aborted(jb) == jb.signal = "aborted"

(***************************************************************************)
(* bruteForcePuzzle                                                        *)
(***************************************************************************)
StartKey(config) == HexValue(config.startKey)
EndKey(config) == HexValue(config.endKey)

\* Math.min(10000, Number(endKey - startKey) / 100) is a whole number
BatchSizeIsInteger(config) ==
    \/ EndKey(config) - StartKey(config) >= BatchCap * BatchDivisor
    \/ JsRem(EndKey(config) - StartKey(config), BatchDivisor) = 0

\* its value when it is one
BatchSize(config) ==
    Min(BatchCap, JsDiv(EndKey(config) - StartKey(config), BatchDivisor))

\* a plausible slip: the loop goes on whatever the cancellation flags say
BruteLoopIgnoresCancel(current, endKey, shouldStop, aborted) ==
    current <= endKey

\* the condition of the while loop
BruteLoopCondition(current, endKey, shouldStop, aborted) ==
    current <= endKey /\ ~shouldStop /\ ~aborted

\* the for loop over one batch, from key0 on, summed up: shouldStop does not
\* change while the loop runs, so the loop tests the keys up to the first one
\* that derives the target, or up to batchEnd; attempts counts the keys
\* tested; the progress is the one of the last key that did not match and
\* whose attempt is a multiple of 1000 (the division by endKey - startKey = 0
\* throws and is caught)
BatchScan(config, key0, batchEnd, attempts0, progress0, shouldStop) ==
    IF ~(key0 <= batchEnd /\ ~shouldStop)
    THEN [found |-> FALSE, attempts |-> attempts0, progress |-> progress0]
    ELSE CHOOSE out \in {
        CHOOSE res \in {
            CHOOSE r \in {
                IF hits # {}
                THEN [found |-> TRUE, attempts |-> attempts0 + (last - key0 + 1),
                      progress |-> progress,
                      privateKey |-> Hex64(last),
                      publicKey |-> PrivateKeyToPublicKey(Hex64(last), config.compressed),
                      address |-> PublicKeyToAddress(
                                    PrivateKeyToPublicKey(Hex64(last), config.compressed))]
                ELSE [found |-> FALSE, attempts |-> attempts0 + (last - key0 + 1),
                      progress |-> progress]
                : progress \in {
                    IF marks = {} \/ EndKey(config) = StartKey(config)
                    THEN progress0
                    ELSE CHOOSE pr \in {
                             [current |-> Hex64(key), attempts |-> attempts0 + (key - key0 + 1),
                              percentage |-> JsDiv((key - StartKey(config)) * 100,
                                                   EndKey(config) - StartKey(config))]
                             : key \in {CHOOSE k \in marks : \A m \in marks : m <= k}}
                             : TRUE}} : TRUE
            : last \in {IF hits = {} THEN batchEnd
                        ELSE CHOOSE k \in hits : \A h \in hits : k <= h},
              marks \in {{k \in key0..batchEnd :
                            /\ \A h \in hits : k < h
                            /\ (attempts0 + (k - key0 + 1)) % ProgressEvery = 0}}} : TRUE
        : hits \in {{k \in key0..batchEnd :
                       PublicKeyToAddress(PrivateKeyToPublicKey(Hex64(k), config.compressed))
                           = config.targetAddress}}} : TRUE

\* a plausible slip: the batch is not cut at the end of the range
BatchEndBeyondRange(current, config) == current + BatchSize(config)

\* const batchEnd: the last key of the batch that starts at current
BatchEnd(current, config) ==
    IF current + BatchSize(config) > EndKey(config)
    THEN EndKey(config)
    ELSE current + BatchSize(config)

\* one run of bruteForcePuzzle from the test of the while loop on
BruteRunBody(e, jb) ==
    IF ~BruteLoopCondition(jb.current, EndKey(jb.config), e.shouldStop, Aborted(jb))
    THEN [eng |-> [e EXCEPT !.isRunning = FALSE],
          job |-> [jb EXCEPT !.pc = "returned",
                             !.result = NotFound(jb.attempts, "brute_force")]]
    ELSE IF ~BatchSizeIsInteger(jb.config)
    THEN \* BigInt(batchSize) throws a RangeError outside every try
         [eng |-> e, job |-> [jb EXCEPT !.pc = "rejected", !.error = "RangeError"]]
    ELSE LET batchEnd == BatchEnd(jb.current, jb.config)
         IN  CHOOSE out \in {
                 IF scan.found
                 THEN [eng |-> [e EXCEPT !.isRunning = FALSE,
                                         !.currentProgress = scan.progress],
                       job |-> [jb EXCEPT !.pc = "returned",
                                          !.attempts = scan.attempts,
                                          !.result = Found(scan.privateKey, scan.publicKey,
                                                           scan.address, scan.attempts,
                                                           "brute_force")]]
                 ELSE [eng |-> [e EXCEPT !.currentProgress = scan.progress],
                       job |-> [jb EXCEPT !.pc = "suspended",
                                          !.attempts = scan.attempts,
                                          !.current = batchEnd + 1]]
                 : scan \in {BatchScan(jb.config, jb.current, batchEnd, jb.attempts,
                                       e.currentProgress, e.shouldStop)}} : TRUE

BruteRun(e0, jb0) ==
    CHOOSE out \in {BruteRunBody(e, jb) : e \in {e0}, jb \in {jb0}} : TRUE

\* the call: lines 40 to 50, then the first run
BruteForcePuzzle(j) ==
    /\ job[j].pc = "idle" /\ job[j].method = "brute_force"
    /\ \E run \in {BruteRun([eng EXCEPT !.isRunning = TRUE, !.shouldStop = FALSE],
                              [job[j] EXCEPT !.attempts = 0,
                                             !.current = StartKey(job[j].config)])} :
           /\ eng' = run.eng
           /\ job' = [job EXCEPT ![j] = run.job]
    /\ UNCHANGED <<rec, dup, tx, call>>

\* the end of  await new Promise(resolve => setTimeout(resolve, 1))
BruteForceResume(j) ==
    /\ job[j].pc = "suspended" /\ job[j].method = "brute_force"
    /\ \E run \in {BruteRun(eng, job[j])} :
           /\ eng' = run.eng
           /\ job' = [job EXCEPT ![j] = run.job]
    /\ UNCHANGED <<rec, dup, tx, call>>

(***************************************************************************)
(* dictionaryAttack                                                        *)
(*                                                                         *)
(* A text is a natural number.  generateVariations(word) gives the word    *)
(* and its seven rewritings (lower case, upper case, three affixes, the    *)
(* reversal, leetspeak): the text 8 * word + v stands for rewriting v of   *)
(* word, v = 0 being the word itself.  hashToPrivateKey is SHA-256 as 64   *)
(* hex digits: a fixed function of the text, here with values in 0..60.    *)
(***************************************************************************)
GenerateVariations(word) == [v \in 1..8 |-> 8 * word + (v - 1)]

HashToPrivateKey(text) == Hex64((7 * text + 3) % 61)

\* the for loop over the variations of one word, from the n-th on
RECURSIVE VariationScan(_, _, _, _)
VariationScan(config, variations, n0, attempts0) ==
    CHOOSE out \in {
        IF n > Len(variations)
        THEN [found |-> FALSE, attempts |-> attempts]
        ELSE CHOOSE next \in {
                 IF PublicKeyToAddress(publicKey) = config.targetAddress
                 THEN [found |-> TRUE, attempts |-> attempts + 1,
                       privateKey |-> HashToPrivateKey(variations[n]),
                       publicKey |-> publicKey,
                       address |-> PublicKeyToAddress(publicKey)]
                 ELSE VariationScan(config, variations, n + 1, attempts + 1)
                 : publicKey \in {PrivateKeyToPublicKey(HashToPrivateKey(variations[n]),
                                                        config.compressed)}} : TRUE
        : n \in {n0}, attempts \in {attempts0}} : TRUE

\* one run of dictionaryAttack from the test of the for loop on; jb.current
\* is the index i, counted from 0
DictionaryRunBody(e, jb) ==
    LET totalWords == Len(jb.config.wordlist)
        i == jb.current
    IN  IF ~(i < totalWords /\ ~e.shouldStop /\ ~Aborted(jb))
        THEN [eng |-> [e EXCEPT !.isRunning = FALSE],
              job |-> [jb EXCEPT !.pc = "returned",
                                 !.result = NotFound(jb.attempts, "dictionary")]]
        ELSE LET word == jb.config.wordlist[i + 1]
                 variations == IF jb.config.variations
                               THEN GenerateVariations(word)
                               ELSE <<8 * word>>
             IN  CHOOSE out \in {
                     IF scan.found
                     THEN [eng |-> [e EXCEPT !.isRunning = FALSE],
                           job |-> [jb EXCEPT !.pc = "returned",
                                              !.attempts = scan.attempts,
                                              !.result = Found(scan.privateKey,
                                                               scan.publicKey, scan.address,
                                                               scan.attempts, "dictionary")]]
                     ELSE [eng |-> IF i % 100 = 0
                                   THEN [e EXCEPT !.currentProgress =
                                            [current |-> <<word>>,
                                             attempts |-> scan.attempts,
                                             percentage |-> JsDiv(i * 100, totalWords)]]
                                   ELSE e,
                           job |-> [jb EXCEPT !.pc = "suspended",
                                              !.attempts = scan.attempts,
                                              !.current = i + 1]]
                     : scan \in {VariationScan(jb.config, variations, 1, jb.attempts)}}
                     : TRUE

DictionaryRun(e0, jb0) ==
    CHOOSE out \in {DictionaryRunBody(e, jb) : e \in {e0}, jb \in {jb0}} : TRUE

DictionaryAttack(j) ==
    /\ job[j].pc = "idle" /\ job[j].method = "dictionary"
    /\ \E run \in {DictionaryRun([eng EXCEPT !.isRunning = TRUE, !.shouldStop = FALSE],
                                   [job[j] EXCEPT !.attempts = 0, !.current = 0])} :
           /\ eng' = run.eng
           /\ job' = [job EXCEPT ![j] = run.job]
    /\ UNCHANGED <<rec, dup, tx, call>>

DictionaryResume(j) ==
    /\ job[j].pc = "suspended" /\ job[j].method = "dictionary"
    /\ \E run \in {DictionaryRun(eng, job[j])} :
           /\ eng' = run.eng
           /\ job' = [job EXCEPT ![j] = run.job]
    /\ UNCHANGED <<rec, dup, tx, call>>

(***************************************************************************)
(* stop() and the abort of a call's signal                                 *)
(***************************************************************************)
\* the note that a cancellation was signalled to a call in flight, and
\* where the call stood then
Signalled(jb) ==
    IF jb.pc = "suspended" /\ ~jb.signalled
    THEN [jb EXCEPT !.signalled = TRUE,
                    !.snap = [set |-> TRUE, attempts |-> jb.attempts,
                              current |-> jb.current]]
    ELSE jb

Stop ==
    /\ ~eng.shouldStop \/ eng.isRunning
    /\ eng' = [eng EXCEPT !.shouldStop = TRUE, !.isRunning = FALSE]
    /\ job' = [j \in JobIds |-> Signalled(job[j])]
    /\ UNCHANGED <<rec, dup, tx, call>>

Abort(j) ==
    /\ job[j].signal = "live"
    /\ job[j].pc \in {"idle", "suspended"}
    /\ job' = [job EXCEPT ![j] =
                  [Signalled(job[j]) EXCEPT !.signal = "aborted", !.signalled = TRUE]]
    /\ UNCHANGED <<rec, dup, eng, tx, call>>

(***************************************************************************)
(* The search calls that are checked: one call on a fresh AttackAIO        *)
(***************************************************************************)
\* a wordlist holds at most MaxWords words
MaxWords == 2

\* the ranges startKey..endKey: of one key, of widths that are no multiple
\* of 100, and of widths 100, 200 and 1100 (batches of 2, 3 and 12 keys)
BruteRanges == {<<5, 5>>, <<6, 6>>, <<5, 6>>, <<1, 10>>, <<1, 101>>, <<5, 205>>, <<7, 1107>>}
TargetKeys == {5, 6}
Words == {1, 2}

TargetAddresses(compressed) ==
    {PublicKeyToAddress(PrivateKeyToPublicKey(Hex64(k), compressed)) : k \in TargetKeys}
    \cup {NoAddress}

BruteConfigs ==
    UNION {{[startKey |-> ToString16(range[1]), endKey |-> ToString16(range[2]),
             targetAddress |-> t, compressed |-> c] :
               range \in BruteRanges, t \in TargetAddresses(c)} : c \in BOOLEAN}

WordLists == UNION {[1..n -> Words] : n \in 0..MaxWords}

\* the texts the words of the model are rewritten to
DictionaryConfigs ==
    {[wordlist |-> wl, variations |-> v, targetAddress |-> t, compressed |-> FALSE] :
        wl \in WordLists, v \in BOOLEAN,
        t \in {PublicKeyToAddress(PrivateKeyToPublicKey(HashToPrivateKey(x), FALSE)) :
                  x \in {8, 19}} \cup {NoAddress}}

InitSearch ==
    /\ eng = NewEngine
    /\ \E signal \in {"none", "live"} :
          \/ \E config \in BruteConfigs :
                job = [j \in JobIds |-> IF j = 1 THEN NewJob("brute_force", config, signal)
                                        ELSE UnusedJob]
          \/ \E config \in DictionaryConfigs :
                job = [j \in JobIds |-> IF j = 1 THEN NewJob("dictionary", config, signal)
                                        ELSE UnusedJob]
    /\ rec = IdleRec
    /\ dup = IdleDup
    /\ tx = IdleTx
    /\ call = IdleCall

NextSearch ==
    \/ BruteForcePuzzle(1)
    \/ BruteForceResume(1)
    \/ DictionaryAttack(1)
    \/ DictionaryResume(1)
    \/ Stop
    \/ Abort(1)

SpecSearch == InitSearch /\ [][NextSearch]_vars

\* the call has ended, by a return or by a throw
Ended(jb) == jb.pc \in {"returned", "rejected"}

\* the keys of the range of a brute-force call that derive its target
Hits(config) ==
    {k \in StartKey(config)..EndKey(config) :
        PublicKeyToAddress(PrivateKeyToPublicKey(Hex64(k), config.compressed))
            = config.targetAddress}

\* the texts of a dictionary call that derive its target
WordHits(config) ==
    {x \in {8 * config.wordlist[i] + v : i \in 1..Len(config.wordlist),
                                         v \in IF config.variations THEN 0..7 ELSE {0}} :
        PublicKeyToAddress(PrivateKeyToPublicKey(HashToPrivateKey(x), config.compressed))
            = config.targetAddress}

\* the whole range, or the whole wordlist, has been gone through
Exhausted(jb) ==
    IF jb.method = "brute_force" THEN jb.current > EndKey(jb.config)
    ELSE jb.current >= Len(jb.config.wordlist)

\* C6: a brute-force call that is not cancelled returns found: true with the
\* key of the range that derives the target when there is one, and found:
\* false when there is none, whatever the width of the range.
C6_BruteForceFindsKeyInRange ==
    (/\ job[1].method = "brute_force" /\ Ended(job[1])
     /\ ~job[1].signalled /\ ~Aborted(job[1]))
        => /\ job[1].pc = "returned"
           /\ job[1].result.found = (Hits(job[1].config) # {})
           /\ job[1].result.found =>
                 /\ HexValue(job[1].result.privateKey) \in Hits(job[1].config)
                 /\ \A k \in Hits(job[1].config) : HexValue(job[1].result.privateKey) <= k

\* C7: once cancellation is signalled to a brute-force call suspended after a
\* batch with keys of its range left, the call tests at most one further
\* batch, and ends only by returning a result that reports no key, with
\* keys of the range left untested.
C7_CancelWithinOneBatch ==
    (/\ job[1].method = "brute_force" /\ job[1].snap.set
     /\ job[1].snap.current <= EndKey(job[1].config))
        => /\ job[1].pc \in {"suspended", "returned"}
           /\ job[1].attempts <= job[1].snap.attempts + BatchSize(job[1].config) + 1
           /\ job[1].current <= job[1].snap.current + BatchSize(job[1].config) + 1
           /\ job[1].pc = "returned" =>
                 /\ ~job[1].result.found
                 /\ job[1].current <= EndKey(job[1].config)

C7_Witness ==
    /\ job[1].method = "brute_force" /\ job[1].pc = "returned"
    /\ job[1].snap.set
    /\ job[1].snap.attempts = BatchSize(job[1].config) + 1
    /\ job[1].result = NotFound(BatchSize(job[1].config) + 1, "brute_force")
    /\ EndKey(job[1].config) - StartKey(job[1].config) >= 1000
    /\ Hits(job[1].config) # {}

\* C27: bruteForcePuzzle tests the scalars of [start, end] once each, in
\* ascending order and without a gap, and attempts counts them: a suspended
\* call has tested start .. current - 1, a found result for key k reports
\* k - start + 1 attempts and a not-found result that was not cancelled
\* reports end - start + 1.
C27_AttemptsCountTestedKeys ==
    job[1].method = "brute_force" =>
        /\ job[1].pc = "suspended" =>
              /\ job[1].current = StartKey(job[1].config) + job[1].attempts
              /\ job[1].current <= EndKey(job[1].config) + 1
        /\ (job[1].pc = "returned" /\ job[1].result.found) =>
              /\ job[1].result.attempts
                    = HexValue(job[1].result.privateKey) - StartKey(job[1].config) + 1
              /\ job[1].result.attempts = job[1].attempts
        /\ (/\ job[1].pc = "returned" /\ ~job[1].result.found
            /\ ~job[1].signalled /\ ~Aborted(job[1])) =>
              job[1].result.attempts
                  = EndKey(job[1].config) - StartKey(job[1].config) + 1

C27_Witness ==
    /\ job[1].method = "brute_force" /\ job[1].pc = "returned"
    /\ job[1].result.found
    /\ job[1].result.attempts = 5
    /\ StartKey(job[1].config) = 1 /\ EndKey(job[1].config) = 101
    /\ HexValue(job[1].result.privateKey) = 5

\* C8: every search call ends in exactly one of Found, Exhausted and
\* Cancelled, and in Cancelled (no match, search space not gone through)
\* only if a cancellation was signalled to it.
C8_EndsFoundExhaustedOrCancelled ==
    Ended(job[1]) =>
        /\ job[1].pc = "returned"
        /\ (~job[1].result.found /\ ~Exhausted(job[1])) => job[1].signalled

\* C9: a brute-force or dictionary call that finds no key within its bounds
\* ends by returning a result with found: false; it never throws.
C9_NotFoundIsReturned ==
    (/\ Ended(job[1])
     /\ \/ job[1].method = "brute_force" /\ Hits(job[1].config) = {}
        \/ job[1].method = "dictionary" /\ WordHits(job[1].config) = {})
        => job[1].pc = "returned" /\ ~job[1].result.found

(***************************************************************************)
(* blockAnalysis.ts: the transaction codec                                 *)
(***************************************************************************)

\* the number that is not one: parseInt of a string without digits
NaN == -1

\* a + b and a * b on numbers
JsAdd(a, b) == IF a = NaN \/ b = NaN THEN NaN ELSE a + b
JsMul(a, b) == IF a = NaN \/ b = NaN THEN NaN ELSE a * b

\* a < b on numbers: false when either is NaN
JsLess(a, b) == a # NaN /\ b # NaN /\ a < b

\* an argument of slice as an index into a string of length len
SliceIndex(a, len) == IF a = NaN THEN 0 ELSE IF a > len THEN len ELSE a

\* s.slice(a, b) and s.slice(a) for a, b >= 0 or NaN
Slice(s, a, b) ==
    IF SliceIndex(a, Len(s)) >= SliceIndex(b, Len(s)) THEN <<>>
    ELSE SubSeq(s, SliceIndex(a, Len(s)) + 1, SliceIndex(b, Len(s)))

SliceFrom(s, a) == Slice(s, a, Len(s))

\* parseInt(s, 16) for a string of hex digits
ParseInt16(s) == IF s = <<>> THEN NaN ELSE HexValue(s)

\* readVarint, with the parseInt that gives the value as Parse
ReadVarintWith(s, Parse(_)) ==
    CHOOSE out \in {
        IF JsLess(i, 253) THEN <<Parse(Slice(s, 0, 2)), 2>>
        ELSE IF i = 253 THEN <<Parse(Slice(s, 2, 6)), 6>>
        ELSE IF i = 254 THEN <<Parse(Slice(s, 2, 10)), 10>>
        ELSE <<Parse(Slice(s, 2, 18)), 18>>
        : i \in {ParseInt16(Slice(s, 0, 2))}} : TRUE

\* readVarint on the strings of the transactions, whose numbers are small
ReadVarint(s) == ReadVarintWith(s, ParseInt16)

\* the loop over the inputs, from input i on: the inputs and the pointer
RECURSIVE ReadInputs(_, _, _, _, _)
ReadInputs(hexData, pointer0, i, inputCount, inputs0) ==
    CHOOSE out \in {
        IF ~JsLess(i, inputCount)
        THEN [pointer |-> pointer, inputs |-> inputs]
        ELSE CHOOSE next \in {
                 ReadInputs(hexData,
                     JsAdd(JsAdd(JsAdd(JsAdd(pointer, 72), script[2]),
                                 JsMul(script[1], 2)), 8),
                     i + 1, inputCount,
                     Append(inputs,
                        [prev_tx |-> Slice(hexData, pointer, JsAdd(pointer, 64)),
                         vout |-> ParseInt16(Slice(hexData, JsAdd(pointer, 64),
                                                   JsAdd(pointer, 72))),
                         scriptSig |->
                             Slice(hexData, JsAdd(JsAdd(pointer, 72), script[2]),
                                   JsAdd(JsAdd(JsAdd(pointer, 72), script[2]),
                                         JsMul(script[1], 2))),
                         sequence |->
                             Slice(hexData,
                                   JsAdd(JsAdd(JsAdd(pointer, 72), script[2]),
                                         JsMul(script[1], 2)),
                                   JsAdd(JsAdd(JsAdd(JsAdd(pointer, 72), script[2]),
                                               JsMul(script[1], 2)), 8))]))
                 : script \in {ReadVarint(SliceFrom(hexData, JsAdd(pointer, 72)))}} : TRUE
        : pointer \in {pointer0}, inputs \in {inputs0}} : TRUE

\* the loop over the outputs, from output i on
RECURSIVE ReadOutputs(_, _, _, _, _)
ReadOutputs(hexData, pointer0, i, outputCount, outputs0) ==
    CHOOSE out \in {
        IF ~JsLess(i, outputCount)
        THEN [pointer |-> pointer, outputs |-> outputs]
        ELSE CHOOSE next \in {
                 ReadOutputs(hexData,
                     JsAdd(JsAdd(JsAdd(pointer, 16), script[2]), JsMul(script[1], 2)),
                     i + 1, outputCount,
                     Append(outputs,
                        [amount |-> ParseInt16(Slice(hexData, pointer, JsAdd(pointer, 16))),
                         scriptPubKey |->
                             Slice(hexData, JsAdd(JsAdd(pointer, 16), script[2]),
                                   JsAdd(JsAdd(JsAdd(pointer, 16), script[2]),
                                         JsMul(script[1], 2)))]))
                 : script \in {ReadVarint(SliceFrom(hexData, JsAdd(pointer, 16)))}} : TRUE
        : pointer \in {pointer0}, outputs \in {outputs0}} : TRUE

\* new BitcoinTransaction(hexData): no statement of the constructor throws
\* on a string, so it always ends with an object
BitcoinTransaction(hexData) ==
    CHOOSE object \in {
        CHOOSE o2 \in {
            CHOOSE o3 \in {
                CHOOSE o4 \in {
                    [threw |-> FALSE,
                     hex |-> hexData,
                     version |-> ParseInt16(Slice(hexData, 0, 8)),
                     inputCount |-> ic[1],
                     inputs |-> ins.inputs,
                     outputCount |-> oc[1],
                     outputs |-> outs.outputs,
                     locktime |-> ParseInt16(Slice(hexData, outs.pointer,
                                                   JsAdd(outs.pointer, 8))),
                     prevScriptPubKeys |-> <<>>]
                    : outs \in {ReadOutputs(hexData, JsAdd(ins.pointer, oc[2]), 0,
                                            oc[1], <<>>)}} : TRUE
                : oc \in {ReadVarint(SliceFrom(hexData, ins.pointer))}} : TRUE
            : ins \in {ReadInputs(hexData, 8 + ic[2], 0, ic[1], <<>>)}} : TRUE
        : ic \in {ReadVarint(SliceFrom(hexData, 8))}} : TRUE

\* the serialization of a transaction whose every script is two bytes long
Bytes(n, digit) == [i \in 1..(2 * n) |-> IF i % 2 = 0 THEN digit ELSE 0]

SampleInput(n) == Bytes(32, n) \o Bytes(4, 0) \o <<0, 2, 10, 11, 12, 13>> \o Bytes(4, 15)
SampleOutput(n) == Bytes(6, 0) \o <<0, 5, 0, n>> \o <<0, 2, 5, 1, 10, 12>>

\* the number of inputs of the largest transaction
MaxInputs == 2

RECURSIVE Repeat(_, _)
Repeat(n, item) == IF n = 0 THEN <<>> ELSE Repeat(n - 1, item) \o item

\* well-formed transactions: version 1, n inputs, one or n outputs, the
\* counts on one byte or on fd and two bytes
WellFormedTxs ==
    UNION {{<<0, 1, 0, 0, 0, 0, 0, 0>> \o count \o Repeat(n, SampleInput(n))
        \o count \o Repeat(n, SampleOutput(n)) \o Bytes(4, 0)
            : count \in {<<0, n>>, <<15, 13, 0, 0, 0, n>>}} : n \in 1..MaxInputs}

InitTx ==
    /\ rec = IdleRec
    /\ dup = IdleDup
    /\ eng = IdleEng
    /\ job = IdleJob
    /\ call = IdleCall
    /\ \E whole \in WellFormedTxs : \E len \in 0..Len(whole) :
           tx = [pc |-> "idle", hexData |-> SubSeq(whole, 1, len), whole |-> whole]

Construct ==
    /\ tx.pc = "idle"
    /\ tx' = [pc |-> "constructed", hexData |-> tx.hexData, whole |-> tx.whole,
              object |-> BitcoinTransaction(tx.hexData)]
    /\ UNCHANGED <<rec, dup, eng, job, call>>

NextTx == Construct

SpecTx == InitTx /\ [][NextTx]_vars

\* C10: the construction of a transaction from a hex string that ends before
\* a declared field is complete throws; it does not end with an object.
C10_TruncatedHexThrows ==
    (tx.pc = "constructed" /\ Len(tx.hexData) < Len(tx.whole)) => tx.object.threw

(***************************************************************************)
(* blockAnalysis.ts: varintHex and readVarint on numbers of any size        *)
(*                                                                         *)
(* A number up to 2^53 is a sequence of limbs in base 2^16, the most        *)
(* significant first and not 0 unless it is the only one.                   *)
(***************************************************************************)

\* a < b
WideLess(a, b) ==
    \/ Len(a) < Len(b)
    \/ /\ Len(a) = Len(b)
       /\ \E i \in 1..Len(a) : a[i] < b[i] /\ \A j \in 1..(i - 1) : a[j] = b[j]

\* n.toString(16): the digits of the first limb, then four digits a limb
WideToString16(n) ==
    ToString16(n[1]) \o
        [k \in 1..(4 * (Len(n) - 1)) |->
            (n[2 + ((k - 1) \div 4)] \div (16 ^ (3 - ((k - 1) % 4)))) % 16]

\* parseInt(s, 16) for a string of hex digits
ParseWide16(s) ==
    IF s = <<>> THEN <<NaN>>
    ELSE IF Significant(s) = <<>> THEN <<0>>
    ELSE [i \in 1..((Len(Significant(s)) + 3) \div 4) |->
            HexValue(SubSeq(PadStart(Significant(s),
                                     4 * ((Len(Significant(s)) + 3) \div 4)),
                            4 * i - 3, 4 * i))]

\* the encoding the format prescribes: the payload with its low byte first
ReverseHex(h) ==
    [k \in 1..(2 * (Len(h) \div 2)) |->
        h[(Len(h) - 2 - 2 * ((k - 1) \div 2)) + 1 + ((k - 1) % 2)]]

VarintHexLittleEndian(n) ==
    IF WideLess(n, <<253>>) THEN PadStart(WideToString16(n), 2)
    ELSE IF ~WideLess(<<65535>>, n)
    THEN <<15, 13>> \o ReverseHex(PadStart(WideToString16(n), 4))
    ELSE IF ~WideLess(<<65535, 65535>>, n)
    THEN <<15, 14>> \o ReverseHex(PadStart(WideToString16(n), 8))
    ELSE <<15, 15>> \o ReverseHex(PadStart(WideToString16(n), 16))

VarintHex(n) ==
    IF WideLess(n, <<253>>) THEN PadStart(WideToString16(n), 2)
    ELSE IF ~WideLess(<<65535>>, n) THEN <<15, 13>> \o PadStart(WideToString16(n), 4)
    ELSE IF ~WideLess(<<65535, 65535>>, n)
    THEN <<15, 14>> \o PadStart(WideToString16(n), 8)
    ELSE <<15, 15>> \o PadStart(WideToString16(n), 16)

ReadVarintWide(s) == ReadVarintWith(s, ParseWide16)

\* the numbers below MaxOneLimb, and numbers around the limits of each form:
\* 0xffff, 0x10000, 0x10001, 0x12345678, 0xffffffff, 0x100000000,
\* 0x100000001, 0x112345678
MaxOneLimb == 260

VarintValues ==
    {<<v>> : v \in 0..(MaxOneLimb - 1)}
    \cup {<<65535>>, <<1, 0>>, <<1, 1>>, <<4660, 22136>>, <<65535, 65535>>,
          <<1, 0, 0>>, <<1, 0, 1>>, <<1, 4660, 22136>>}

InitVarint ==
    /\ rec = IdleRec
    /\ dup = IdleDup
    /\ eng = IdleEng
    /\ job = IdleJob
    /\ tx = IdleTx
    /\ \E v \in VarintValues : call = [pc |-> "idle", v |-> v]

EncodeVarint ==
    /\ call.pc = "idle"
    /\ call' = [pc |-> "encoded", v |-> call.v, hex |-> VarintHex(call.v)]
    /\ UNCHANGED <<rec, dup, eng, job, tx>>

DecodeVarint ==
    /\ call.pc = "encoded"
    /\ call' = [pc |-> "decoded", v |-> call.v, hex |-> call.hex,
                read |-> ReadVarintWide(call.hex)]
    /\ UNCHANGED <<rec, dup, eng, job, tx>>

NextVarint == EncodeVarint \/ DecodeVarint

SpecVarint == InitVarint /\ [][NextVarint]_vars

\* 0, 0xfc, 0xfd, 0xffff, 0x10000, 0xffffffff, 0x100000000
RoundTripValues ==
    {<<0>>, <<252>>, <<253>>, <<65535>>, <<1, 0>>, <<65535, 65535>>, <<1, 0, 0>>}

\* C11: for each of 0, 0xfc, 0xfd, 0xffff, 0x10000, 0xffffffff and
\* 0x100000000, readVarint of varintHex of the value gives the value back,
\* and the length it reports is the length of the encoding.
C11_VarintRoundTrip ==
    (call.pc = "decoded" /\ call.v \in RoundTripValues)
        => call.read = <<call.v, Len(call.hex)>>

C11_Witness ==
    /\ call.pc = "decoded" /\ call.v = <<1, 0, 0>>
    /\ call.hex = <<15, 15, 0, 0, 0, 0, 0, 0, 0, 1, 0, 0, 0, 0, 0, 0, 0, 0>>
    /\ call.read = <<<<1, 0, 0>>, 18>>

\* C12: varintHex writes a value below 0xfd on one byte, a value up to 0xffff
\* as fd and two bytes, a value up to 0xffffffff as fe and four bytes, a
\* larger one as ff and eight bytes, each payload with its low byte first;
\* readVarint consumes the width that goes with the prefix.
C12_VarintLittleEndian ==
    /\ call.pc \in {"encoded", "decoded"} => call.hex = VarintHexLittleEndian(call.v)
    /\ call.pc = "decoded" =>
          call.read[2] = (IF call.hex[1] # 15 \/ call.hex[2] < 13 THEN 2
                          ELSE IF call.hex[2] = 13 THEN 6
                          ELSE IF call.hex[2] = 14 THEN 10 ELSE 18)

(***************************************************************************)
(* blockAnalysis.ts: BitcoinTransaction.sighash                            *)
(***************************************************************************)

\* a number of the transaction as the limbs varintHex is modelled on
WideOf(v) == IF v < 65536 THEN <<v>> ELSE <<v \div 65536, v % 65536>>

\* doubleSha256(hex): the digest is named by the bytes it is the digest of
DoubleSha256(hex) == [doubleSha256 |-> SubSeq(hex, 1, 2 * (Len(hex) \div 2))]

\* the uncaught TypeError of  script.length  on an undefined script
TypeError == [threw |-> TRUE, error |-> "TypeError"]

\* the loop over the inputs from input j on, h being the string so far
RECURSIVE SighashInputs(_, _, _, _)
SighashInputs(object, inputIndex, j, h0) ==
    CHOOSE out \in {
        IF ~(j < Len(object.inputs)) THEN [threw |-> FALSE, h |-> h]
        ELSE IF j = inputIndex /\ j + 1 > Len(object.prevScriptPubKeys)
        THEN TypeError
        ELSE SighashInputs(object, inputIndex, j + 1,
                 h \o object.inputs[j + 1].prev_tx
                   \o PadStart(ToString16(object.inputs[j + 1].vout), 8)
                   \o (IF j = inputIndex
                       THEN VarintHex(WideOf(Len(object.prevScriptPubKeys[j + 1]) \div 2))
                                \o object.prevScriptPubKeys[j + 1]
                       ELSE <<0, 0>>)
                   \o object.inputs[j + 1].sequence)
        : h \in {h0}} : TRUE

\* the loop over the outputs from output j on
RECURSIVE SighashOutputs(_, _, _)
SighashOutputs(object, j, h0) ==
    CHOOSE out \in {
        IF ~(j < Len(object.outputs)) THEN h
        ELSE SighashOutputs(object, j + 1,
                 h \o PadStart(ToString16(object.outputs[j + 1].amount), 16)
                   \o VarintHex(WideOf(Len(object.outputs[j + 1].scriptPubKey) \div 2))
                   \o object.outputs[j + 1].scriptPubKey)
        : h \in {h0}} : TRUE

\* the string that is hashed, or the error
SighashPreimage(object, inputIndex) ==
    CHOOSE out \in {
        IF ins.threw THEN ins
        ELSE [threw |-> FALSE,
              h |-> SighashOutputs(object, 0,
                        ins.h \o VarintHex(WideOf(object.outputCount)))
                    \o PadStart(ToString16(object.locktime), 8)
                    \o <<0, 1, 0, 0, 0, 0, 0, 0>>]
        : ins \in {SighashInputs(object, inputIndex, 0,
                       PadStart(ToString16(object.version), 8)
                           \o VarintHex(WideOf(object.inputCount)))}} : TRUE

Sighash(object, inputIndex) ==
    CHOOSE out \in {
        IF pre.threw THEN pre
        ELSE [threw |-> FALSE, digest |-> DoubleSha256(pre.h)]
        : pre \in {SighashPreimage(object, inputIndex)}} : TRUE

\* what prevScriptPubKeys holds for an input: '' (pushed when the previous
\* transaction could not be fetched) or the script of a previous output, of
\* 2, 3 or 253 bytes
PrevScripts == {<<>>, <<5, 1, 10, 12>>, <<7, 6, 10, 9, 1, 4>>, Bytes(253, 1)}

\* the transactions sighash is called on: complete ones, with the scripts of
\* none, some or all of their inputs pushed
InitSighash ==
    /\ rec = IdleRec
    /\ dup = IdleDup
    /\ eng = IdleEng
    /\ job = IdleJob
    /\ \E whole \in WellFormedTxs :
       \E object \in {BitcoinTransaction(whole)} :
       \E n \in 0..Len(object.inputs) :
       \E prev \in [1..n -> PrevScripts] :
           tx = [pc |-> "constructed", hexData |-> whole, whole |-> whole,
                 object |-> [object EXCEPT !.prevScriptPubKeys = prev]]
    /\ \E inputIndex \in 0..MaxInputs :
           call = [pc |-> "idle", inputIndex |-> inputIndex]

CallSighash ==
    /\ call.pc = "idle"
    /\ call' = [pc |-> "done", inputIndex |-> call.inputIndex,
                outcome |-> Sighash(tx.object, call.inputIndex)]
    /\ UNCHANGED <<rec, dup, eng, job, tx>>

NextSighash == CallSighash

SpecSighash == InitSighash /\ [][NextSighash]_vars

\* prevScriptPubKeys holds the script of the previous output of input i
Populated(object, i) ==
    /\ i + 1 <= Len(object.prevScriptPubKeys)
    /\ object.prevScriptPubKeys[i + 1] # <<>>

\* C13: sighash(inputIndex) fails whenever prevScriptPubKeys[inputIndex] has
\* not been populated; it returns no digest made without that script.
C13_SighashNeedsPrevScript ==
    (call.pc = "done" /\ ~Populated(tx.object, call.inputIndex))
        => call.outcome.threw

\* the serialization of the transaction from input j on, pointer being where
\* input j starts in it, with the scriptSig of input inputIndex replaced by
\* the script and its length as the format writes it, the scriptSig of the
\* other inputs by the empty script, and the rest as it is
RECURSIVE WithScriptsReplaced(_, _, _, _, _)
WithScriptsReplaced(whole, n, inputIndex, script, at) ==
    CHOOSE out \in {
        IF j >= n THEN SliceFrom(whole, pointer)
        ELSE CHOOSE next \in {
                 Slice(whole, pointer, pointer + 72)
                     \o (IF j = inputIndex
                         THEN VarintHexLittleEndian(WideOf(Len(script) \div 2)) \o script
                         ELSE <<0, 0>>)
                     \o Slice(whole, pointer + 72 + len[2] + 2 * len[1],
                              pointer + 72 + len[2] + 2 * len[1] + 8)
                     \o WithScriptsReplaced(whole, n, inputIndex, script,
                            <<j + 1, pointer + 72 + len[2] + 2 * len[1] + 8>>)
                 : len \in {ReadVarint(SliceFrom(whole, pointer + 72))}} : TRUE
        : j \in {at[1]}, pointer \in {at[2]}} : TRUE

\* C25: for a parsed transaction and an input whose previous script is
\* populated, sighash hashes the serialization of the transaction with the
\* scriptSig of that input replaced by the previous script and its varint
\* length, the scriptSig of every other input by the empty script, all
\* other fields as they are, followed by 01000000.
C25_SighashPreimage ==
    (/\ call.pc = "done"
     /\ call.inputIndex < tx.object.inputCount
     /\ Populated(tx.object, call.inputIndex)
     /\ tx.whole[9] # 15)
        => /\ ~call.outcome.threw
           /\ call.outcome.digest = DoubleSha256(
                  Slice(tx.whole, 0, 10)
                      \o WithScriptsReplaced(tx.whole, tx.object.inputCount,
                             call.inputIndex,
                             tx.object.prevScriptPubKeys[call.inputIndex + 1],
                             <<0, 10>>)
                      \o <<0, 1, 0, 0, 0, 0, 0, 0>>)

(***************************************************************************)
(* blockAnalysis.ts: parseSignature                                        *)
(***************************************************************************)

\* the return of { r, s }
Signature(r, s) == [kind |-> "signature", r |-> r, s |-> s]

\* the return of r and s, rLen being the length byte of the first integer
ReadIntegers(sig, rLen) ==
    Signature(
        Slice(sig, 8, JsAdd(8, JsMul(rLen, 2))),
        Slice(sig, JsAdd(JsAdd(8, JsMul(rLen, 2)), 4),
              JsAdd(JsAdd(JsAdd(8, JsMul(rLen, 2)), 4),
                    JsMul(ParseInt16(Slice(sig, JsAdd(JsAdd(8, JsMul(rLen, 2)), 2),
                                           JsAdd(JsAdd(8, JsMul(rLen, 2)), 4))),
                          2))))

\* a plausible slip: the tag of the second integer is not tested
SecondIntegerUntested(sig, rLen) == ReadIntegers(sig, rLen)

\* from the test of the second 02 on
SecondInteger(sig, rLen) ==
    IF Slice(sig, JsAdd(8, JsMul(rLen, 2)), JsAdd(JsAdd(8, JsMul(rLen, 2)), 2)) # <<0, 2>>
    THEN Null
    ELSE ReadIntegers(sig, rLen)

\* from the test of the 30 on, sig being the pushed data
ParseDer(sig) ==
    IF Slice(sig, 0, 2) # <<3, 0>> THEN Null
    ELSE IF Slice(sig, 4, 6) # <<0, 2>> THEN Null
    ELSE SecondInteger(sig, ParseInt16(Slice(sig, 6, 8)))

ParseSignature(scriptSig) ==
    IF scriptSig = <<>> THEN Null
    ELSE ParseDer(Slice(scriptSig, 2,
                        JsAdd(2, JsMul(ParseInt16(Slice(scriptSig, 0, 2)), 2))))

\* the integers of the sample signatures are up to MaxIntegerLen bytes long
MaxIntegerLen == 2

\* a script that pushes a signature and its hash type: the push of
\* <tag0> <len> <tag1> <rLen> <r> <tag2> <sLen> <s> 01
SampleScriptSig(tag0, tag1, tag2, rLen, sLen) ==
    PadStart(ToString16(7 + rLen + sLen), 2) \o tag0
        \o PadStart(ToString16(4 + rLen + sLen), 2)
        \o tag1 \o PadStart(ToString16(rLen), 2) \o Bytes(rLen, 10)
        \o tag2 \o PadStart(ToString16(sLen), 2) \o Bytes(sLen, 11)
        \o <<0, 1>>

\* the scripts with each tag right or wrong, and every string they begin with
ScriptSigs ==
    UNION {{SubSeq(whole, 1, len) : len \in 0..Len(whole)} :
        whole \in {SampleScriptSig(tag0, tag1, tag2, rLen, sLen) :
            tag0 \in {<<3, 0>>, <<3, 1>>},
            tag1 \in {<<0, 2>>, <<0, 3>>},
            tag2 \in {<<0, 2>>, <<0, 3>>},
            rLen \in 1..MaxIntegerLen, sLen \in 1..MaxIntegerLen}}

InitSignature ==
    /\ rec = IdleRec
    /\ dup = IdleDup
    /\ eng = IdleEng
    /\ job = IdleJob
    /\ tx = IdleTx
    /\ \E scriptSig \in ScriptSigs : call = [pc |-> "idle", scriptSig |-> scriptSig]

CallParseSignature ==
    /\ call.pc = "idle"
    /\ call' = [pc |-> "done", scriptSig |-> call.scriptSig,
                result |-> ParseSignature(call.scriptSig)]
    /\ UNCHANGED <<rec, dup, eng, job, tx>>

NextSignature == CallParseSignature

SpecSignature == InitSignature /\ [][NextSignature]_vars

\* the data the first push of a script pushes, as far as the script goes
PushedData(scriptSig) ==
    IF scriptSig = <<>> THEN <<>>
    ELSE SubSeq(scriptSig, 3,
                Min(Len(scriptSig),
                    2 + 2 * HexValue(SubSeq(scriptSig, 1, Min(2, Len(scriptSig))))))

\* the bytes b, b+1, ... of a string are the tag 02, a length, and then at
\* least nothing: the integer that starts at byte b (counted from 0)
IntegerAt(data, b) ==
    /\ Len(data) >= 2 * b + 2
    /\ SubSeq(data, 2 * b + 1, 2 * b + 2) = <<0, 2>>

\* the length byte of the integer that starts at byte b, 0 when it is cut off
IntegerLen(data, b) ==
    IF Len(data) >= 2 * b + 3
    THEN HexValue(SubSeq(data, 2 * b + 3, Min(Len(data), 2 * b + 4)))
    ELSE 0

\* C14: parseSignature returns null, and raises nothing, for every scriptSig
\* whose pushed data does not begin with the tag 30, the empty script
\* included; it returns r and s only when the tag 02 stands at byte 2 of the
\* pushed data and again right after the first integer.
C14_ParseSignatureNullOrTagged ==
    call.pc = "done" =>
        /\ call.result = Null \/ call.result.kind = "signature"
        /\ (Len(PushedData(call.scriptSig)) < 2
              \/ SubSeq(PushedData(call.scriptSig), 1, 2) # <<3, 0>>)
              => call.result = Null
        /\ call.result # Null =>
              /\ IntegerAt(PushedData(call.scriptSig), 2)
              /\ IntegerAt(PushedData(call.scriptSig),
                           4 + IntegerLen(PushedData(call.scriptSig), 2))

C14_Witness ==
    /\ call.pc = "done"
    /\ call.scriptSig = SampleScriptSig(<<3, 0>>, <<0, 2>>, <<0, 2>>, 2, 1)
    /\ call.result = Signature(<<0, 10, 0, 10>>, <<0, 11>>)

(***************************************************************************)
(* modInverse (attackaio.ts and bitcoinAnalysis.ts hold the same code)     *)
(***************************************************************************)

\* the moduli are 2..MaxModulus and the two primes of the curve; a is in
\* -MaxOperand..MaxOperand
MaxModulus == 12
MaxOperand == 30

InitModInverse ==
    /\ rec = IdleRec
    /\ dup = IdleDup
    /\ eng = IdleEng
    /\ job = IdleJob
    /\ tx = IdleTx
    /\ \E m \in (2..MaxModulus) \cup {N, P} : \E a \in (0 - MaxOperand)..MaxOperand :
           call = [pc |-> "idle", a |-> a, m |-> m]

CallModInverse ==
    /\ call.pc = "idle"
    /\ call' = [pc |-> "done", a |-> call.a, m |-> call.m,
                result |-> ModInverse(call.a, call.m)]
    /\ UNCHANGED <<rec, dup, eng, job, tx>>

NextModInverse == CallModInverse

SpecModInverse == InitModInverse /\ [][NextModInverse]_vars

\* the greatest common divisor of a and m, m >= 1
Gcd(a, m) ==
    CHOOSE d \in 1..m :
        /\ a % d = 0 /\ m % d = 0
        /\ \A c \in 1..m : (a % c = 0 /\ m % c = 0) => c <= d

\* C15: for every modulus m and every a with gcd(a, m) = 1, modInverse(a, m)
\* returns x in [0, m) with (x * a) mod m = 1.
C15_ModInverseInverts ==
    (call.pc = "done" /\ Gcd(call.a, call.m) = 1)
        => /\ call.result \in 0..(call.m - 1)
           /\ (call.result * call.a) % call.m = 1

C15_Witness ==
    /\ call.pc = "done" /\ call.a = 0 - 5 /\ call.m = 12 /\ call.result = 7

\* C16: modInverse(a, m) fails, and returns no value, for every a and m with
\* gcd(a, m) # 1, a = 0 (mod m) included.
C16_ModInverseFails ==
    (call.pc = "done" /\ Gcd(call.a, call.m) # 1) => call.result = NoInverse

C16_Witness ==
    /\ call.pc = "done" /\ call.a = 0 - 24 /\ call.m = 12 /\ call.result = NoInverse

(***************************************************************************)
(* attackaio.ts: pointAdd and scalarMultiply as functions                  *)
(***************************************************************************)

\* the points of the curve, and the value that stands for the one at infinity
CurvePoints ==
    {pt \in [x : 0..(P - 1), y : 0..(P - 1)] :
        (pt.y * pt.y - pt.x * pt.x * pt.x - 7) % P = 0}
    \cup {Infinity}

InitPointAdd ==
    /\ rec = IdleRec
    /\ dup = IdleDup
    /\ eng = IdleEng
    /\ job = IdleJob
    /\ tx = IdleTx
    /\ \E p1 \in CurvePoints : \E p2 \in CurvePoints :
           call = [pc |-> "idle", p1 |-> p1, p2 |-> p2]

CallPointAdd ==
    /\ call.pc = "idle"
    /\ call' = [pc |-> "done", p1 |-> call.p1, p2 |-> call.p2,
                result |-> PointAdd(call.p1, call.p2)]
    /\ UNCHANGED <<rec, dup, eng, job, tx>>

CallPointAddSecondCopy ==
    /\ call.pc = "idle"
    /\ call' = [pc |-> "done", p1 |-> call.p1, p2 |-> call.p2,
                result |-> PointAddSecondCopy(call.p1, call.p2)]
    /\ UNCHANGED <<rec, dup, eng, job, tx>>

NextPointAdd == CallPointAdd \/ CallPointAddSecondCopy

SpecPointAdd == InitPointAdd /\ [][NextPointAdd]_vars

\* the inverse of a point
Negate(pt) == IF pt = Infinity THEN Infinity ELSE [x |-> pt.x, y |-> P - pt.y]

\* C17: for every point of the curve, the one at infinity included,
\* pointAdd(P, infinity) = P, pointAdd(infinity, P) = P and
\* pointAdd(P, negate(P)) = infinity; for equal operands pointAdd gives what
\* pointDouble gives, not what the slope formula of two points gives.
C17_PointAddIdentities ==
    call.pc = "done" =>
        /\ call.p2 = Infinity => call.result = call.p1
        /\ call.p1 = Infinity => call.result = call.p2
        /\ call.p2 = Negate(call.p1) => call.result = Infinity
        /\ (call.p1 = call.p2 /\ call.p1 # Infinity)
              => call.result = PointDouble(call.p1)

\* scalarMultiply(G, k1), scalarMultiply(G, k2), their pointAdd, and
\* scalarMultiply(G, (k1 + k2) mod n), for k1 and k2 in [0, n)
InitScalar ==
    /\ rec = IdleRec
    /\ dup = IdleDup
    /\ eng = IdleEng
    /\ job = IdleJob
    /\ tx = IdleTx
    /\ \E k1 \in 0..(N - 1) : \E k2 \in 0..(N - 1) :
           call = [pc |-> "idle", k1 |-> k1, k2 |-> k2]

CallScalarMultiply ==
    /\ call.pc = "idle"
    /\ call' = [pc |-> "multiplied", k1 |-> call.k1, k2 |-> call.k2,
                p1 |-> ScalarMultiply(G, call.k1),
                p2 |-> ScalarMultiply(G, call.k2),
                sum |-> ScalarMultiply(G, (call.k1 + call.k2) % N)]
    /\ UNCHANGED <<rec, dup, eng, job, tx>>

AddMultiples ==
    /\ call.pc = "multiplied"
    /\ call' = [pc |-> "added", k1 |-> call.k1, k2 |-> call.k2,
                p1 |-> call.p1, p2 |-> call.p2, sum |-> call.sum,
                added |-> PointAdd(call.p1, call.p2)]
    /\ UNCHANGED <<rec, dup, eng, job, tx>>

NextScalar == CallScalarMultiply \/ AddMultiples

SpecScalar == InitScalar /\ [][NextScalar]_vars

\* C18: for all k1, k2 in [0, n), scalarMultiply(G, (k1 + k2) mod n) is
\* pointAdd(scalarMultiply(G, k1), scalarMultiply(G, k2)); the scalar 0 gives
\* the point at infinity and the scalar 1 gives G.
C18_ScalarMultiplyAdds ==
    /\ call.pc \in {"multiplied", "added"} =>
          /\ call.k1 = 0 => call.p1 = Infinity
          /\ call.k1 = 1 => call.p1 = G
          /\ call.p1 \in CurvePoints /\ call.sum \in CurvePoints
    /\ call.pc = "added" => call.added = call.sum

C18_Witness ==
    /\ call.pc = "added" /\ call.k1 = 17 /\ call.k2 = 17
    /\ call.added = call.sum /\ call.sum = ScalarMultiply(G, 3)
    /\ call.sum # Infinity

(***************************************************************************)
(* attackaio.ts: parsePublicKey                                            *)
(***************************************************************************)

\* s.startsWith(prefix)
StartsWith(s, prefix) ==
    Len(s) >= Len(prefix) /\ SubSeq(s, 1, Len(prefix)) = prefix

\* the loop of modPow: result, base, exp
RECURSIVE ModPowLoop(_, _, _, _)
ModPowLoop(result0, base0, exp0, mod) ==
    CHOOSE out \in {
        IF exp > 0
        THEN ModPowLoop(IF exp % 2 = 1 THEN JsRem(result * base, mod) ELSE result,
                        JsRem(base * base, mod), exp \div 2, mod)
        ELSE result
        : result \in {result0}, base \in {base0}, exp \in {exp0}} : TRUE

ModPow(base, exp, mod) == ModPowLoop(1, JsRem(base, mod), exp, mod)

\* both branches of modSqrt compute the same power
ModSqrt(a, p) == IF a = 0 THEN 0 ELSE ModPow(a, JsDiv(p + 1, 4), p)

\* a plausible slip: the root is returned whatever its parity
RecoverYFromXAnyParity(x, isEven) == ModSqrt(JsRem(x * x * x + 7, P), P)

RecoverYFromX(x, isEven) ==
    CHOOSE out \in {
        IF (JsRem(y, 2) = 0) # isEven THEN P - y ELSE y
        : y \in {ModSqrt(JsRem(x * x * x + 7, P), P)}} : TRUE

\* parsePublicKey: the point, or Thrown for the Error of an unsupported
\* format and for the SyntaxError of BigInt('0x')
ParsePublicKey(publicKeyHex) ==
    IF StartsWith(publicKeyHex, <<0, 4>>)
    THEN IF Len(publicKeyHex) <= 2 + HexWidth THEN Thrown
         ELSE ParseUncompressed(publicKeyHex)
    ELSE IF StartsWith(publicKeyHex, <<0, 2>>) \/ StartsWith(publicKeyHex, <<0, 3>>)
    THEN IF Len(publicKeyHex) <= 2 THEN Thrown
         ELSE [x |-> HexValue(SubSeq(publicKeyHex, 3, Len(publicKeyHex))),
               y |-> RecoverYFromX(HexValue(SubSeq(publicKeyHex, 3, Len(publicKeyHex))),
                                   StartsWith(publicKeyHex, <<0, 2>>))]
    ELSE Thrown

\* the private keys whose public keys are encoded: 1..MaxPrivateKey
MaxPrivateKey == 40

InitPublicKey ==
    /\ rec = IdleRec
    /\ dup = IdleDup
    /\ eng = IdleEng
    /\ job = IdleJob
    /\ tx = IdleTx
    /\ \E k \in 1..MaxPrivateKey : \E compressed \in BOOLEAN :
           call = [pc |-> "idle", k |-> k, compressed |-> compressed]

EncodePublicKey ==
    /\ call.pc = "idle"
    /\ call' = [pc |-> "encoded", k |-> call.k, compressed |-> call.compressed,
                publicKey |-> PrivateKeyToPublicKey(Hex64(call.k), call.compressed)]
    /\ UNCHANGED <<rec, dup, eng, job, tx>>

CallParsePublicKey ==
    /\ call.pc = "encoded"
    /\ call' = [pc |-> "parsed", k |-> call.k, compressed |-> call.compressed,
                publicKey |-> call.publicKey,
                point |-> ParsePublicKey(call.publicKey)]
    /\ UNCHANGED <<rec, dup, eng, job, tx>>

NextPublicKey == EncodePublicKey \/ CallParsePublicKey

SpecPublicKey == InitPublicKey /\ [][NextPublicKey]_vars

\* C19: for every point of the curve other than the one at infinity,
\* parsePublicKey of its encoding is the point, for the compressed encoding
\* (02 or 03 and x; y by the power (p + 1) / 4 and the parity) and for the
\* uncompressed one (04, x and y).
C19_PublicKeyRoundTrip ==
    (call.pc = "parsed" /\ ScalarMultiply(G, call.k) # Infinity)
        => /\ call.point = ScalarMultiply(G, call.k)
           /\ call.point \in CurvePoints
           /\ Len(call.publicKey) = (IF call.compressed THEN 2 + HexWidth
                                     ELSE 2 + 2 * HexWidth)

C19_Witness ==
    /\ call.pc = "parsed" /\ call.compressed
    /\ call.publicKey[2] = 3
    /\ call.point = ScalarMultiply(G, call.k)
    /\ call.point # Infinity

(***************************************************************************)
(* blockAnalysis.ts: analyzeBlock                                          *)
(*                                                                         *)
(* The block explorer is the environment: the list of txids, each raw      *)
(* transaction and each previous output is fetched or fails to be.  The    *)
(* locals of a call are its own, so one pass of the loop is one step.      *)
(***************************************************************************)

\* at most MaxBlockTxs transactions in a block
MaxBlockTxs == 2

\* an input as the environment serves it: its scriptSig, and the script of
\* its previous output unless getScriptPubKey throws
InputKinds ==
    {[scriptSig |-> SampleScriptSig(<<3, 0>>, <<0, 2>>, <<0, 2>>, 1, 1),
      prev |-> [threw |-> FALSE, script |-> <<5, 1, 10, 12>>]],
     [scriptSig |-> SampleScriptSig(<<3, 0>>, <<0, 2>>, <<0, 2>>, 1, 1),
      prev |-> [threw |-> TRUE, script |-> <<>>]],
     [scriptSig |-> SampleScriptSig(<<3, 0>>, <<0, 2>>, <<0, 2>>, 1, 1),
      prev |-> [threw |-> FALSE, script |-> <<7, 6, 10, 9, 1, 4>>]],
     [scriptSig |-> SampleScriptSig(<<3, 1>>, <<0, 2>>, <<0, 2>>, 1, 1),
      prev |-> [threw |-> FALSE, script |-> <<5, 1, 10, 12>>]]}

SerializedInput(kind) ==
    Bytes(32, 1) \o Bytes(4, 0)
        \o PadStart(ToString16(Len(kind.scriptSig) \div 2), 2) \o kind.scriptSig
        \o Bytes(4, 15)

\* the raw transaction with these inputs and one output
RawTx(kinds) ==
    <<0, 1, 0, 0, 0, 0, 0, 0>> \o <<0, Len(kinds)>>
        \o (IF Len(kinds) = 1 THEN SerializedInput(kinds[1])
            ELSE SerializedInput(kinds[1]) \o SerializedInput(kinds[2]))
        \o <<0, 1>> \o SampleOutput(1) \o Bytes(4, 0)

\* what the explorer serves for a txid: nothing (getRawTx throws), or a
\* transaction of one or two inputs
BlockItems ==
    {[fetch |-> "fail", raw |-> <<>>, prev |-> <<>>, scriptSigs |-> <<>>]}
    \cup {[fetch |-> "ok", raw |-> RawTx(<<k>>), prev |-> <<k.prev>>,
           scriptSigs |-> <<k.scriptSig>>] : k \in InputKinds}
    \cup {[fetch |-> "ok", raw |-> RawTx(<<k1, k2>>), prev |-> <<k1.prev, k2.prev>>,
           scriptSigs |-> <<k1.scriptSig, k2.scriptSig>>] :
             k1 \in InputKinds, k2 \in InputKinds}

\* a plausible slip: nothing is pushed for a previous output that could not
\* be fetched
PopulatePrevScriptsSkipsFailed(object, prev) ==
    [object EXCEPT !.prevScriptPubKeys =
        [i \in 1..Cardinality({k \in 1..Len(object.inputs) : ~prev[k].threw}) |->
            prev[CHOOSE k \in 1..Len(object.inputs) :
                    /\ ~prev[k].threw
                    /\ Cardinality({l \in 1..k : ~prev[l].threw}) = i].script]]

\* the loop that fills prevScriptPubKeys: one push per input, in order
PopulatePrevScripts(object, prev) ==
    [object EXCEPT !.prevScriptPubKeys =
        [i \in 1..Len(object.inputs) |-> IF prev[i].threw THEN <<>> ELSE prev[i].script]]

\* the loop that extracts the signatures, from input i on
RECURSIVE ExtractSignatures(_, _, _, _)
ExtractSignatures(object, txid, i, signatures0) ==
    CHOOSE out \in {
        IF ~JsLess(i, object.inputCount) THEN signatures
        ELSE CHOOSE next \in {
                 ExtractSignatures(object, txid, i + 1,
                     IF /\ rs # Null
                        /\ i + 1 <= Len(object.prevScriptPubKeys)
                        /\ object.prevScriptPubKeys[i + 1] # <<>>
                        /\ ~z.threw
                     THEN Append(signatures,
                                 [txid |-> txid, inputIndex |-> i,
                                  r |-> rs.r, s |-> rs.s, z |-> z.digest])
                     ELSE signatures)
                 : rs \in {ParseSignature(object.inputs[i + 1].scriptSig)},
                   z \in {Sighash(object, i)}} : TRUE
        : signatures \in {signatures0}} : TRUE

InitBlock ==
    /\ rec = IdleRec
    /\ dup = IdleDup
    /\ eng = IdleEng
    /\ job = IdleJob
    /\ tx = IdleTx
    /\ \E n \in 0..MaxBlockTxs : \E block \in [1..n -> BlockItems] :
           call = [pc |-> "idle", block |-> block, txIndex |-> 0,
                   signatures |-> <<>>, warned |-> {}, last |-> IdleTx]

\* getTxids answers: the loop starts
GetTxids ==
    /\ call.pc = "idle"
    /\ call' = [call EXCEPT !.pc = "running"]
    /\ UNCHANGED <<rec, dup, eng, job, tx>>

\* getTxids throws: analyzeBlock rejects
GetTxidsFails ==
    /\ call.pc = "idle"
    /\ call' = [call EXCEPT !.pc = "rejected"]
    /\ UNCHANGED <<rec, dup, eng, job, tx>>

\* one pass of the loop over the txids; warned holds the positions whose
\* pass ended in the catch, last the transaction object of the pass
AnalyzeTransaction ==
    /\ call.pc = "running" /\ call.txIndex < Len(call.block)
    /\ \E item \in {call.block[call.txIndex + 1]} :
         IF item.fetch = "fail"
         THEN call' = [call EXCEPT !.txIndex = call.txIndex + 1,
                                   !.warned = call.warned \cup {call.txIndex + 1},
                                   !.last = IdleTx]
         ELSE \E object \in {PopulatePrevScripts(BitcoinTransaction(item.raw),
                                                 item.prev)} :
                call' = [call EXCEPT !.txIndex = call.txIndex + 1,
                                     !.signatures =
                                         ExtractSignatures(object, call.txIndex + 1, 0,
                                                           call.signatures),
                                     !.last = object]
    /\ UNCHANGED <<rec, dup, eng, job, tx>>

\* return signatures
ReturnSignatures ==
    /\ call.pc = "running" /\ call.txIndex = Len(call.block)
    /\ call' = [call EXCEPT !.pc = "returned"]
    /\ UNCHANGED <<rec, dup, eng, job, tx>>

NextBlock == GetTxids \/ GetTxidsFails \/ AnalyzeTransaction \/ ReturnSignatures

SpecBlock == InitBlock /\ [][NextBlock]_vars

\* the transactions of a block that could not be fetched
FailedItems(block) == {i \in 1..Len(block) : block[i].fetch = "fail"}

\* C20: in analyzeBlock a transaction that cannot be fetched or parsed does
\* not stop the transactions after it from being processed, and the result
\* returned reports the failures along with the signatures.
C20_FailuresIsolatedAndReported ==
    call.pc = "returned" =>
        /\ call.txIndex = Len(call.block)
        /\ \A i \in FailedItems(call.block) :
              \E k \in 1..Len(call.signatures) : call.signatures[k].txid = i

(***************************************************************************)
(* attackaio.ts: two search calls in flight on one AttackAIO                *)
(*                                                                         *)
(* CTFCryptoAttacks.tsx keeps one AttackAIO for the life of the component  *)
(* (line 1154).  handleStopAttack calls stop() and clears the component's  *)
(* isRunning at once, so handleStartAttack can make the next call while    *)
(* the call that was stopped is still suspended in its await.              *)
(***************************************************************************)

\* the first call goes through a range of 51 batches, the second through a
\* range of one key
FirstConfigs ==
    {[startKey |-> ToString16(1), endKey |-> ToString16(101),
      targetAddress |-> NoAddress, compressed |-> FALSE]}

SecondConfigs ==
    {[startKey |-> ToString16(range[1]), endKey |-> ToString16(range[2]),
      targetAddress |-> t, compressed |-> FALSE] :
        range \in {<<5, 5>>, <<6, 6>>}, t \in TargetAddresses(FALSE)}

InitConcurrent ==
    /\ eng = NewEngine
    /\ \E c1 \in FirstConfigs, c2 \in SecondConfigs, signal \in {"none", "live"} :
           job = [j \in JobIds |-> IF j = 1 THEN NewJob("brute_force", c1, signal)
                                   ELSE NewJob("brute_force", c2, "none")]
    /\ rec = IdleRec
    /\ dup = IdleDup
    /\ tx = IdleTx
    /\ call = IdleCall

\* the second call is made once the first is in flight
NextConcurrent ==
    \/ BruteForcePuzzle(1)
    \/ BruteForceResume(1)
    \/ (job[1].pc # "idle" /\ BruteForcePuzzle(2))
    \/ BruteForceResume(2)
    \/ Stop
    \/ Abort(1)

SpecConcurrent == InitConcurrent /\ [][NextConcurrent]_vars

\* stop() was called while the call was suspended, and its signal is not
\* what cancelled it
StoppedInFlight(jb) == jb.pc = "suspended" /\ jb.snap.set /\ ~Aborted(jb)

\* C21: two search calls in flight on one AttackAIO share no state: a call
\* that is in flight and was not stopped sees the running status true, and
\* a call that was stopped while in flight still sees the cancellation flag
\* set when it resumes, whatever the other call has done in between.
C21_JobsShareNoState ==
    \A a \in JobIds :
        /\ (job[a].pc = "suspended" /\ ~job[a].signalled) => eng.isRunning
        /\ StoppedInFlight(job[a]) => eng.shouldStop

(***************************************************************************)
(* attackaio.ts: pollardRho and babyGiantStep                              *)
(*                                                                         *)
(* The group of the scaled curve has 31 elements, so the walk of           *)
(* pollardRho is cut at MaxIterations steps where the code cuts it at      *)
(* 1000000; babyGiantStep computes its m from N as the code does.          *)
(***************************************************************************)
MaxIterations == 8

\* the progress of pollardRho is reported when i % 10000 === 0, the one of
\* the giant steps when i % 1000 === 0
RhoProgressEvery == 10000
GiantProgressEvery == 1000

\* the result of the two methods: a key and the public key, no address
FoundKey(privateKeyHex, publicKey, attempts, method) ==
    [found |-> TRUE, privateKey |-> privateKeyHex, publicKey |-> publicKey,
     attempts |-> attempts, method |-> method]

\* the public key written into rhoFunction (line 688): a point of the curve
\* that is not the target of the call
HardCodedKey == PrivateKeyToPublicKey(Hex64(7), FALSE)

\* a state of the walk: a point and the scalar that is tracked with it
RhoFunction(state) ==
    IF state.point.x % 3 = 0
    THEN [point |-> PointAdd(state.point, G), scalar |-> (state.scalar + 1) % N]
    ELSE IF state.point.x % 3 = 1
    THEN [point |-> PointDouble(state.point), scalar |-> (state.scalar * 2) % N]
    ELSE [point |-> PointAdd(state.point, ParsePublicKey(HardCodedKey)),
          scalar |-> state.scalar]

\* solvePollardCollision: null, or the difference as toString(16) writes it;
\* a negative one starts with '-', which is written as the digit -1 here
SolvePollardCollision(x, y) ==
    CHOOSE out \in {
        IF diff = 0 THEN Null
        ELSE IF diff < 0 THEN [kind |-> "key", privateKey |-> <<-1>> \o Hex64(-diff)]
        ELSE [kind |-> "key", privateKey |-> Hex64(diff)]
        : diff \in {JsRem(x.scalar - y.scalar, N)}} : TRUE

\* a call of pollardRho that has not been made yet
RhoJob(targetPublicKey, signal) ==
    [pc |-> "idle", method |-> "pollard_rho",
     config |-> [targetPublicKey |-> targetPublicKey], signal |-> signal,
     attempts |-> 0, current |-> 0, result |-> NoResult, error |-> "none",
     signalled |-> FALSE, snap |-> [set |-> FALSE, attempts |-> 0, current |-> 0],
     targetPoint |-> Infinity,
     x |-> [point |-> Infinity, scalar |-> 0],
     y |-> [point |-> Infinity, scalar |-> 0]]

\* the rest of one pass of the for loop, x and y being the new states
RhoStep(e, jb, x, y) ==
    CHOOSE out \in {
        IF /\ PointsEqual(x.point, y.point) /\ solved # Null
           /\ solved.privateKey[1] = -1
        THEN \* BigInt('0x' + privateKey) throws a SyntaxError outside every try
             [eng |-> e,
              job |-> [jb EXCEPT !.pc = "rejected", !.error = "SyntaxError",
                                 !.attempts = jb.attempts + 1, !.x = x, !.y = y]]
        ELSE IF /\ PointsEqual(x.point, y.point) /\ solved # Null
                /\ PrivateKeyToPublicKey(solved.privateKey, FALSE)
                       = jb.config.targetPublicKey
        THEN [eng |-> [e EXCEPT !.isRunning = FALSE],
              job |-> [jb EXCEPT !.pc = "returned",
                                 !.attempts = jb.attempts + 1, !.x = x, !.y = y,
                                 !.result = FoundKey(solved.privateKey,
                                     PrivateKeyToPublicKey(solved.privateKey, FALSE),
                                     jb.attempts + 1, "pollard_rho")]]
        ELSE IF PointsEqual(x.point, jb.targetPoint)
        THEN [eng |-> [e EXCEPT !.isRunning = FALSE],
              job |-> [jb EXCEPT !.pc = "returned",
                                 !.attempts = jb.attempts + 1, !.x = x, !.y = y,
                                 !.result = FoundKey(Hex64(x.scalar),
                                     jb.config.targetPublicKey,
                                     jb.attempts + 1, "pollard_rho")]]
        ELSE [eng |-> IF jb.current % RhoProgressEvery = 0
                      THEN [e EXCEPT !.currentProgress =
                               [current |-> Hex64(x.scalar),
                                attempts |-> jb.attempts + 1,
                                percentage |-> (jb.current * 100) \div MaxIterations]]
                      ELSE e,
              job |-> [jb EXCEPT !.pc = "suspended",
                                 !.attempts = jb.attempts + 1, !.x = x, !.y = y,
                                 !.current = jb.current + 1]]
        : solved \in {SolvePollardCollision(x, y)}} : TRUE

\* one run of pollardRho from the test of the for loop on; jb.current is i
RhoRunBody(e, jb) ==
    IF ~(jb.current < MaxIterations /\ ~e.shouldStop /\ ~Aborted(jb))
    THEN [eng |-> [e EXCEPT !.isRunning = FALSE],
          job |-> [jb EXCEPT !.pc = "returned",
                             !.result = NotFound(jb.attempts, "pollard_rho")]]
    ELSE RhoStep(e, jb, RhoFunction(jb.x), RhoFunction(RhoFunction(jb.y)))

RhoRun(e0, jb0) ==
    CHOOSE out \in {RhoRunBody(e, jb) : e \in {e0}, jb \in {jb0}} : TRUE

\* the call: lines 192 to 202, generateRandomPoint giving any scalar below
\* N, then the first run; parsePublicKey may throw
PollardRho(j) ==
    /\ job[j].pc = "idle" /\ job[j].method = "pollard_rho"
    /\ \E targetPoint \in {ParsePublicKey(job[j].config.targetPublicKey)} :
         IF targetPoint = Thrown
         THEN /\ eng' = [eng EXCEPT !.isRunning = TRUE, !.shouldStop = FALSE]
              /\ job' = [job EXCEPT ![j].pc = "rejected", ![j].error = "Error"]
         ELSE \E scalar \in 0..(N - 1) :
              \E start \in {[point |-> ScalarMultiply(G, scalar), scalar |-> scalar]} :
              \E run \in {RhoRun([eng EXCEPT !.isRunning = TRUE, !.shouldStop = FALSE],
                                 [job[j] EXCEPT !.targetPoint = targetPoint,
                                                !.x = start, !.y = start])} :
                  /\ eng' = run.eng
                  /\ job' = [job EXCEPT ![j] = run.job]
    /\ UNCHANGED <<rec, dup, tx, call>>

\* the end of  await new Promise(resolve => setTimeout(resolve, 1))
PollardRhoResume(j) ==
    /\ job[j].pc = "suspended" /\ job[j].method = "pollard_rho"
    /\ \E run \in {RhoRun(eng, job[j])} :
           /\ eng' = run.eng
           /\ job' = [job EXCEPT ![j] = run.job]
    /\ UNCHANGED <<rec, dup, tx, call>>

\* Math.floor(Math.sqrt(Number(n)))
FloorSqrt(n) == CHOOSE m \in 0..n : m * m <= n /\ (m + 1) * (m + 1) > n

\* const m of babyGiantStep
BabySteps(n) == FloorSqrt(n)

PointSubtract(p1, p2) == PointAdd(p1, [x |-> p2.x, y |-> P - p2.y])

\* a call of babyGiantStep that has not been made yet
BabyGiantJob(targetPublicKey, signal) ==
    [pc |-> "idle", method |-> "baby_giant",
     config |-> [targetPublicKey |-> targetPublicKey], signal |-> signal,
     attempts |-> 0, current |-> 0, result |-> NoResult, error |-> "none",
     signalled |-> FALSE, snap |-> [set |-> FALSE, attempts |-> 0, current |-> 0],
     targetPoint |-> Infinity]

\* the loop of the baby steps, summed up: it runs m times or not at all
\* (nothing can change shouldStop or the signal while it runs), sets
\* babySteps[j * G] = j and reports the progress at j = 0
BabyLoop(e, jb, m) ==
    IF ~(0 < m /\ ~e.shouldStop /\ ~Aborted(jb))
    THEN [eng |-> e, attempts |-> 0, babySteps |-> {}]
    ELSE [eng |-> [e EXCEPT !.currentProgress =
                      [current |-> <<"Baby step", 0>>, attempts |-> 1,
                       percentage |-> 0]],
          attempts |-> m,
          babySteps |-> {[point |-> ScalarMultiply(G, j), j |-> j] : j \in 0..(m - 1)}]

\* the loop of the giant steps from step i on
RECURSIVE GiantLoop(_, _, _, _, _, _, _)
GiantLoop(e0, jb, m, babySteps, i0, y0, attempts0) ==
    CHOOSE out \in {
        IF ~(i < m /\ ~e.shouldStop /\ ~Aborted(jb))
        THEN [eng |-> [e EXCEPT !.isRunning = FALSE],
              job |-> [jb EXCEPT !.pc = "returned", !.attempts = attempts,
                                 !.current = i,
                                 !.result = NotFound(attempts, "baby_giant")]]
        ELSE CHOOSE next \in {
                 IF hit # {} /\ PointsEqual(ScalarMultiply(G, privateKey), jb.targetPoint)
                 THEN [eng |-> [e EXCEPT !.isRunning = FALSE],
                       job |-> [jb EXCEPT !.pc = "returned",
                                          !.attempts = attempts + 1,
                                          !.current = i,
                                          !.result = FoundKey(Hex64(privateKey),
                                              jb.config.targetPublicKey,
                                              attempts + 1, "baby_giant")]]
                 ELSE GiantLoop(
                          IF i % GiantProgressEvery = 0
                          THEN [e EXCEPT !.currentProgress =
                                   [current |-> <<"Giant step", i>>,
                                    attempts |-> attempts + 1,
                                    percentage |-> 50 + (i * 50) \div m]]
                          ELSE e,
                          jb, m, babySteps, i + 1,
                          PointSubtract(y, ScalarMultiply(G, m)), attempts + 1)
                 : hit \in {{b \in babySteps : b.point = y}},
                   privateKey \in {IF \E b \in babySteps : b.point = y
                                   THEN (i * m + (CHOOSE b \in babySteps : b.point = y).j) % N
                                   ELSE 0}} : TRUE
        : e \in {e0}, i \in {i0}, y \in {y0}, attempts \in {attempts0}} : TRUE

\* the call: babyGiantStep has no await, it runs from its first line to its
\* return or throw in one run
BabyGiantStep(j) ==
    /\ job[j].pc = "idle" /\ job[j].method = "baby_giant"
    /\ \E targetPoint \in {ParsePublicKey(job[j].config.targetPublicKey)} :
         IF targetPoint = Thrown
         THEN /\ eng' = [eng EXCEPT !.isRunning = TRUE, !.shouldStop = FALSE]
              /\ job' = [job EXCEPT ![j].pc = "rejected", ![j].error = "Error"]
         ELSE \E baby \in {BabyLoop([eng EXCEPT !.isRunning = TRUE, !.shouldStop = FALSE],
                                    job[j], BabySteps(N))} :
              \E run \in {GiantLoop(baby.eng,
                                    [job[j] EXCEPT !.targetPoint = targetPoint],
                                    BabySteps(N), baby.babySteps, 0, targetPoint,
                                    baby.attempts)} :
                  /\ eng' = run.eng
                  /\ job' = [job EXCEPT ![j] = run.job]
    /\ UNCHANGED <<rec, dup, tx, call>>

\* the targets: the public keys of the keys 1 .. N - 1 in the uncompressed
\* form, two of them in the compressed form, and a key of no known format
UnsupportedKey == <<0, 5>> \o Hex64(2)

TargetPublicKeys ==
    {PrivateKeyToPublicKey(Hex64(d), FALSE) : d \in 1..(N - 1)}
    \cup {PrivateKeyToPublicKey(Hex64(d), TRUE) : d \in {3, 30}}
    \cup {UnsupportedKey}

InitDlog ==
    /\ eng = NewEngine
    /\ \E target \in TargetPublicKeys, signal \in {"none", "live"} :
          \/ job = [j \in JobIds |-> IF j = 1 THEN RhoJob(target, signal) ELSE UnusedJob]
          \/ job = [j \in JobIds |-> IF j = 1 THEN BabyGiantJob(target, signal)
                                     ELSE UnusedJob]
    /\ rec = IdleRec
    /\ dup = IdleDup
    /\ tx = IdleTx
    /\ call = IdleCall

NextDlog ==
    \/ PollardRho(1)
    \/ PollardRhoResume(1)
    \/ BabyGiantStep(1)
    \/ Stop
    \/ Abort(1)

SpecDlog == InitDlog /\ [][NextDlog]_vars

C23_RhoKeyVerified ==
    (job[1].method = "pollard_rho" /\ job[1].pc = "returned" /\ job[1].result.found)
        => PointsEqual(ScalarMultiply(G, HexValue(job[1].result.privateKey)),
                       job[1].targetPoint)

C26_NotRunningAfterEnd ==
    (Ended(job[1]) /\ job[2].pc = "unused") => ~eng.isRunning

\* C28: in analyzeBlock, once the previous scripts of a transaction are
\* fetched, prevScriptPubKeys holds one entry per input, entry i being the
\* script of the previous output of input i, or '' when its fetch failed; a
\* record is emitted for an input only when its own previous script is not
\* empty and its scriptSig parses; the records come in the order of the
\* transactions in the block and, within one, of the inputs.
C28_PrevScriptsAlignedAndOrdered ==
    /\ (call.pc \in {"running", "returned"} /\ call.txIndex >= 1) =>
          \A item \in {call.block[call.txIndex]} :
              item.fetch = "ok" =>
                  /\ Len(call.last.prevScriptPubKeys) = Len(call.last.inputs)
                  /\ Len(call.last.inputs) = Len(item.prev)
                  /\ \A i \in 1..Len(item.prev) :
                        call.last.prevScriptPubKeys[i]
                            = (IF item.prev[i].threw THEN <<>> ELSE item.prev[i].script)
    /\ call.pc \in {"running", "returned"} =>
          /\ \A k \in 1..Len(call.signatures) :
                \A item \in {call.block[call.signatures[k].txid]} :
                    /\ item.fetch = "ok"
                    /\ call.signatures[k].inputIndex + 1 \in 1..Len(item.prev)
                    /\ ~item.prev[call.signatures[k].inputIndex + 1].threw
                    /\ item.prev[call.signatures[k].inputIndex + 1].script # <<>>
                    /\ ParseSignature(item.scriptSigs[call.signatures[k].inputIndex + 1])
                           # Null
          /\ \A k \in 1..Len(call.signatures), l \in 1..Len(call.signatures) :
                k < l =>
                    \/ call.signatures[k].txid < call.signatures[l].txid
                    \/ /\ call.signatures[k].txid = call.signatures[l].txid
                       /\ call.signatures[k].inputIndex < call.signatures[l].inputIndex

C28_Witness ==
    /\ call.pc = "returned" /\ Len(call.block) = 2
    /\ call.block[1].fetch = "ok" /\ Len(call.block[1].prev) = 2
    /\ call.block[1].prev[1].threw /\ ~call.block[1].prev[2].threw
    /\ Len(call.signatures) = 2
    /\ call.signatures[1].txid = 1 /\ call.signatures[1].inputIndex = 1
    /\ call.signatures[2].txid = 2 /\ call.signatures[2].inputIndex = 0

(***************************************************************************)
(* attackaio.ts: parsePublicKey on any key                                 *)
(***************************************************************************)

\* the coordinates written into the keys: 0 .. MaxCoordinate, which is
\* beyond p
MaxCoordinate == 45

\* a prefix, 64 digits of x and, after 04, 64 digits of y
KeysToParse ==
    {<<0, 4>> \o Hex64(x) \o Hex64(y) : x \in 0..MaxCoordinate, y \in 0..MaxCoordinate}
    \cup {prefix \o Hex64(x) : prefix \in {<<0, 2>>, <<0, 3>>, <<0, 5>>},
                               x \in 0..MaxCoordinate}

InitParse ==
    /\ rec = IdleRec
    /\ dup = IdleDup
    /\ eng = IdleEng
    /\ job = IdleJob
    /\ tx = IdleTx
    /\ \E publicKey \in KeysToParse : call = [pc |-> "idle", publicKey |-> publicKey]

ParseKey ==
    /\ call.pc = "idle"
    /\ call' = [pc |-> "parsed", publicKey |-> call.publicKey,
                point |-> ParsePublicKey(call.publicKey)]
    /\ UNCHANGED <<rec, dup, eng, job, tx>>

NextParse == ParseKey

SpecParse == InitParse /\ [][NextParse]_vars

\* C29: parsePublicKey returns only points of the curve: for a key that
\* starts with 02, 03 or 04 it returns (x, y) with x and y in [0, p) and
\* y^2 = x^3 + 7 (mod p), or it fails; for any other key it fails.
C29_ParsedPointOnCurve ==
    (call.pc = "parsed" /\ call.point # Thrown)
        => /\ call.publicKey[2] \in {2, 3, 4}
           /\ call.point.x \in 0..(P - 1)
           /\ call.point.y \in 0..(P - 1)
           /\ (call.point.y * call.point.y) % P
                  = (call.point.x * call.point.x * call.point.x + 7) % P

(***************************************************************************)
(* denovoAnalysis.ts: analyzeDenovoBatch                                   *)
(*                                                                         *)
(* The call suspends in the 1500 ms wait of analyzeDenovoTransaction and   *)
(* in its own 100 ms wait; the signal is aborted by the caller between     *)
(* two runs.  The analysis of a transaction is made on data the function   *)
(* generates itself and is taken not to throw.                             *)
(***************************************************************************)

\* at most MaxTxids txids in a batch
MaxTxids == 6

\* the test of the for loop and the run up to the next await, i being the
\* index the test is made with
BatchLoopHead(c, i) ==
    IF ~(i < c.total)
    THEN [c EXCEPT !.pc = "resolved", !.i = i,
                   !.result = [totalTransactions |-> c.total,
                               analyzedTransactions |-> c.results]]
    ELSE IF c.aborted
    THEN [c EXCEPT !.pc = "rejected", !.i = i, !.error = "Batch analysis aborted"]
    ELSE [c EXCEPT !.pc = "analyzing", !.i = i]

InitBatch ==
    /\ rec = IdleRec
    /\ dup = IdleDup
    /\ eng = IdleEng
    /\ job = IdleJob
    /\ tx = IdleTx
    /\ \E total \in 0..MaxTxids :
           call = [pc |-> "idle", total |-> total, i |-> 0, results |-> 0,
                   aborted |-> FALSE, abortedAt |-> <<>>,
                   result |-> [totalTransactions |-> 0, analyzedTransactions |-> 0],
                   error |-> "none"]

\* the call, up to the first await
AnalyzeDenovoBatch ==
    /\ call.pc = "idle"
    /\ call' = BatchLoopHead(call, 0)
    /\ UNCHANGED <<rec, dup, eng, job, tx>>

\* the end of the wait of analyzeDenovoTransaction: it throws when the
\* signal is aborted, which the catch of the batch logs before the loop
\* goes on; otherwise the result is pushed and the batch waits in turn
TransactionAnalyzed ==
    /\ call.pc = "analyzing"
    /\ call' = IF call.aborted
               THEN BatchLoopHead(call, call.i + 1)
               ELSE [call EXCEPT !.pc = "waiting", !.results = call.results + 1]
    /\ UNCHANGED <<rec, dup, eng, job, tx>>

\* the end of the wait of the batch
BatchWaitEnds ==
    /\ call.pc = "waiting"
    /\ call' = BatchLoopHead(call, call.i + 1)
    /\ UNCHANGED <<rec, dup, eng, job, tx>>

\* abortController.abort(), at any time before the call has ended;
\* abortedAt notes where the call stood
AbortBatch ==
    /\ call.pc \in {"idle", "analyzing", "waiting"}
    /\ ~call.aborted
    /\ call' = [call EXCEPT !.aborted = TRUE, !.abortedAt = <<call.pc, call.i>>]
    /\ UNCHANGED <<rec, dup, eng, job, tx>>

NextBatch == AnalyzeDenovoBatch \/ TransactionAnalyzed \/ BatchWaitEnds \/ AbortBatch

SpecBatch == InitBatch /\ [][NextBatch]_vars

\* C30: when the signal is aborted before analyzeDenovoBatch has returned,
\* the call rejects and does not resolve with a batch result, whichever
\* transaction was being analyzed; a result it resolves with has
\* analyzedTransactions <= totalTransactions.
C30_AbortRejectsBatch ==
    /\ (call.pc \in {"resolved", "rejected"} /\ call.aborted) => call.pc = "rejected"
    /\ call.pc = "resolved" =>
          call.result.analyzedTransactions <= call.result.totalTransactions

====
